---- MODULE Spec2Model ----
(***************************************************************************)
(* Synth_NeuroDark23: pattern store (TimeMatrix), CSV and MIDI codecs,     *)
(* drum channel configuration, look-ahead scheduler and clock worker.      *)
(*                                                                         *)
(* Encodings used throughout:                                              *)
(*   - a JavaScript string that is formatted or parsed is a sequence of    *)
(*     one-character strings; a CSV text is a sequence of lines, a line a  *)
(*     sequence of cells (what split('\n') and split(',') give), a cell a  *)
(*     sequence of characters;                                             *)
(*   - null (an empty note slot) is the record Null;                       *)
(*   - the number NaN is the integer NaN, outside every range in use;      *)
(*   - audio-clock time is counted in units of 1/UnitsPerSec second, so    *)
(*     that the step durations of the tempi in use are whole numbers.      *)
(***************************************************************************)
EXTENDS Integers, Sequences, FiniteSets, TLC

VARIABLES
    blocks,            \* TimeMatrix.blocks
    clipboard,         \* TimeMatrix.clipboard
    bassSynths,        \* AudioEngine.bassSynths: sequence of [id, params]
    masterVolume,      \* DrumSynth.masterVolume
    channels,          \* DrumSynth.channels (index i of the code is i+1 here)
    bpm,               \* AppState.bpm
    editingBlock,      \* AppState.editingBlock
    selectedStep,      \* AppState.selectedStep
    activeView,        \* AppState.activeView
    currentOctave,     \* AppState.currentOctave
    pendingColorSwap,  \* UIController.pendingColorSwap (NoSwap for null)
    audioReady,        \* AudioEngine.ctx and the gain nodes exist
    isPlaying,         \* AppState.isPlaying
    currentPlayStep,   \* AppState.currentPlayStep
    currentPlayBlock,  \* AppState.currentPlayBlock
    nextNoteTime,      \* AudioEngine.nextNoteTime
    visualQueue,       \* window.visualQueue
    ctxTime,           \* AudioContext.currentTime
    timerID,           \* clock worker: an interval timer is active
    workerInbox,       \* messages posted to the worker, not yet handled
    ticksInFlight,     \* "tick" messages posted by the worker, not yet handled
    csvArea,           \* the csv-io-area text
    midiFile,          \* the bytes of the last exported MIDI file
    last,              \* history: the last operation, its arguments and pre-state
    trigLog,           \* history: the steps dispatched since the last start
    alias,             \* the pairs of slots (of blocks, of the clipboard) holding one object
    clockWorker,       \* AudioEngine.clockWorker exists
    offlineLog,        \* the triggers scheduled on the offline context by the last render
    toggled            \* history: what the last toggleTransport call gave its caller

editVars  == <<editingBlock, selectedStep, activeView, currentOctave>>
playVars  == <<isPlaying, currentPlayStep, currentPlayBlock, nextNoteTime, visualQueue>>
clockVars == <<ctxTime, timerID, workerInbox, ticksInFlight>>
ioVars    == <<csvArea, midiFile>>
auxVars   == <<alias, clockWorker, offlineLog, toggled>>
vars == <<blocks, clipboard, bassSynths, masterVolume, channels, bpm,
          editingBlock, selectedStep, activeView, currentOctave,
          pendingColorSwap, audioReady, isPlaying, currentPlayStep,
          currentPlayBlock, nextNoteTime, visualQueue, ctxTime, timerID,
          workerInbox, ticksInFlight, csvArea, midiFile, last, trigLog,
          alias, clockWorker, offlineLog, toggled>>

(***************************************************************************)
(* Bounds of the model.                                                    *)
(***************************************************************************)
MaxBlocks == 2        \* block operations stop growing the block list here
MaxSynths == 2        \* the "add synth" button is pressed up to this count
MaxSwapChannel == 3   \* colour-swap clicks land on the channels 0..MaxSwapChannel
MaxIntervals == 8     \* the audio clock runs for this many 25 ms worker intervals
MaxTicks == 2         \* tick messages posted by the worker and not yet handled
MaxInbox == 2         \* messages posted to the worker and not yet handled
MaxMarks == 2         \* notes and drum hits the block store specification holds at once

(***************************************************************************)
(* Program constants.                                                      *)
(***************************************************************************)
totalSteps == 16      \* TimeMatrix.totalSteps
NumChannels == 9      \* DrumSynth.channels.length
DefaultBpm == 174     \* AppState.bpm
ticksPerBeat == 480   \* MidiIO.ticksPerBeat
DrumMidiChannel == 9  \* the MIDI channel of the drum track

NaN == 0 - 1000000
IsNaN(v) == v = NaN

Null == [note |-> "", octave |-> 0, slide |-> FALSE, accent |-> FALSE]

Min(a, b) == IF a < b THEN a ELSE b
Max(a, b) == IF a > b THEN a ELSE b

(***************************************************************************)
(* Text helpers: number formatting (template literals), parseInt, Number,  *)
(* split.                                                                  *)
(***************************************************************************)
Digit(d) == CASE d = 0 -> "0" [] d = 1 -> "1" [] d = 2 -> "2" [] d = 3 -> "3"
              [] d = 4 -> "4" [] d = 5 -> "5" [] d = 6 -> "6" [] d = 7 -> "7"
              [] d = 8 -> "8" [] d = 9 -> "9"

DigitChars == {"0", "1", "2", "3", "4", "5", "6", "7", "8", "9"}

DigitVal(c) == CASE c = "0" -> 0 [] c = "1" -> 1 [] c = "2" -> 2 [] c = "3" -> 3
                 [] c = "4" -> 4 [] c = "5" -> 5 [] c = "6" -> 6 [] c = "7" -> 7
                 [] c = "8" -> 8 [] c = "9" -> 9

RECURSIVE NatStr(_)
NatStr(n) == IF n < 10 THEN <<Digit(n)>> ELSE NatStr(n \div 10) \o <<Digit(n % 10)>>

\* `${n}` for a number n
NumStr(n) == IF IsNaN(n) THEN <<"N", "a", "N">>
             ELSE IF n < 0 THEN <<"-">> \o NatStr(0 - n) ELSE NatStr(n)

\* the length of the longest prefix of s made of digits
RECURSIVE DigitRun(_, _)
DigitRun(s, i) == IF i <= Len(s) /\ s[i] \in DigitChars THEN DigitRun(s, i + 1) ELSE i - 1

RECURSIVE DigitsVal(_, _, _)
DigitsVal(s, i, j) == IF i > j THEN 0 ELSE DigitsVal(s, i, j - 1) * 10 + DigitVal(s[j])

\* parseInt(s): optional sign, then the leading digits; NaN when there are none.
\* An absent value (undefined) is the empty sequence here, and gives NaN too.
ParseInt(s) ==
    LET neg == Len(s) >= 1 /\ s[1] = "-"
        pos == Len(s) >= 1 /\ s[1] = "+"
        from == IF neg \/ pos THEN 2 ELSE 1
        to == DigitRun(s, from)
    IN  IF to < from THEN NaN
        ELSE IF neg THEN 0 - DigitsVal(s, from, to) ELSE DigitsVal(s, from, to)

\* Number(s): the whole string must be a number; the empty string is 0.
ToNumber(s) ==
    LET neg == Len(s) >= 1 /\ s[1] = "-"
        pos == Len(s) >= 1 /\ s[1] = "+"
        from == IF neg \/ pos THEN 2 ELSE 1
        to == DigitRun(s, from)
    IN  IF Len(s) = 0 THEN 0
        ELSE IF to < from \/ to # Len(s) THEN NaN
        ELSE IF neg THEN 0 - DigitsVal(s, from, to) ELSE DigitsVal(s, from, to)

\* s.split(c) for a one-character separator c
RECURSIVE Split(_, _)
Split(s, c) ==
    IF \A i \in 1..Len(s) : s[i] # c THEN <<s>>
    ELSE LET i == CHOOSE k \in 1..Len(s) : s[k] = c /\ \A j \in 1..(k - 1) : s[j] # c
         IN  <<SubSeq(s, 1, i - 1)>> \o Split(SubSeq(s, i + 1, Len(s)), c)

\* a[i] of JavaScript (0-based) for an array of strings: undefined is <<>>
At(a, i) == IF i >= 0 /\ i < Len(a) THEN a[i + 1] ELSE <<>>

StartsWith(s, p) == Len(s) >= Len(p) /\ SubSeq(s, 1, Len(p)) = p
Includes(s, c) == \E i \in 1..Len(s) : s[i] = c

RECURSIVE Join(_, _)
Join(parts, c) == IF Len(parts) = 0 THEN <<>>
                  ELSE IF Len(parts) = 1 THEN parts[1]
                  ELSE parts[1] \o <<c>> \o Join(Tail(parts), c)


RemoveFirst(s, c) ==
    IF ~Includes(s, c) THEN s
    ELSE LET i == CHOOSE k \in 1..Len(s) : s[k] = c /\ \A j \in 1..(k - 1) : s[j] # c
         IN  SubSeq(s, 1, i - 1) \o SubSeq(s, i + 1, Len(s))

(***************************************************************************)
(* Identifiers.                                                            *)
(***************************************************************************)
BassId(n) == <<"b", "a", "s", "s", "-">> \o NatStr(n)   \* `bass-${n}`
DrumView == <<"d", "r", "u", "m">>                      \* the 'drum' view
DrumsTag == <<"d", "r", "u", "m", "s">>                 \* the literal 'drums'

\* the number in a track id 'bass-<n>'
KeyNum(id) == ParseInt(SubSeq(id, 6, Len(id)))

\* allTrackKeys in iteration order.  Object.keys gives the keys in the order
\* they were added to the block; bass ids are numbered in the order they are
\* created, which is the order used here
RECURSIVE KeysInOrder(_)
KeysInOrder(S) ==
    IF S = {} THEN <<>>
    ELSE LET k == CHOOSE x \in S : \A y \in S : KeyNum(x) <= KeyNum(y)
         IN  <<k>> \o KeysInOrder(S \ {k})

(***************************************************************************)
(* TimeMatrix: the pattern store.  The operations are functions from the   *)
(* block list (and their arguments) to the new block list.                 *)
(***************************************************************************)
noteMapRev == <<"-", "C", "C#", "D", "D#", "E", "F", "F#", "G", "G#", "A", "A#", "B">>

\* noteMap[n] || 0
noteMap(n) == IF \E i \in 2..13 : noteMapRev[i] = n
              THEN (CHOOSE i \in 2..13 : noteMapRev[i] = n) - 1 ELSE 0

EmptyTrack == [s \in 1..totalSteps |-> Null]            \* new Array(totalSteps).fill(null)
EmptyDrums == [s \in 1..totalSteps |-> <<>>]            \* new Array(totalSteps).fill().map(() => [])

\* b.tracks with the key id added, holding the array t
WithTrack(tracks, id, t) ==
    [k \in DOMAIN tracks \cup {id} |-> IF k = id THEN t ELSE tracks[k]]

\* a registerTrack that gives every block a new array for the id
registerTrackAnew(bs, id) ==
    [i \in 1..Len(bs) |-> [bs[i] EXCEPT !.tracks = WithTrack(bs[i].tracks, id, EmptyTrack)]]

registerTrack(bs, id) ==
    [i \in 1..Len(bs) |->
        IF id \in DOMAIN bs[i].tracks THEN bs[i]
        ELSE [bs[i] EXCEPT !.tracks = WithTrack(bs[i].tracks, id, EmptyTrack)]]

removeTrack(bs, id) ==
    [i \in 1..Len(bs) |->
        [bs[i] EXCEPT !.tracks = [k \in DOMAIN bs[i].tracks \ {id} |-> bs[i].tracks[k]]]]

\* a new block that always starts from the default track alone
addBlockDefaultTrack(bs) ==
    Append(bs, [tracks |-> [k \in {BassId(1)} |-> EmptyTrack], drums |-> EmptyDrums])

addBlock(bs) ==
    LET newTracks == IF Len(bs) > 0 THEN [k \in DOMAIN bs[1].tracks |-> EmptyTrack]
                     ELSE [k \in {BassId(1)} |-> EmptyTrack]
    IN  Append(bs, [tracks |-> newTracks, drums |-> EmptyDrums])

clearBlock(bs, idx) ==
    IF idx < 0 \/ idx >= Len(bs) THEN bs
    ELSE [bs EXCEPT ![idx + 1] =
            [tracks |-> [k \in DOMAIN bs[idx + 1].tracks |->
                            [s \in 1..Len(bs[idx + 1].tracks[k]) |-> Null]],
             drums |-> [s \in 1..Len(bs[idx + 1].drums) |-> <<>>]]]

\* a.splice(idx, 1): a negative idx counts from the end, one past the end removes nothing
SpliceOut(a, idx) ==
    LET start == IF idx < 0 THEN Max(Len(a) + idx, 0) ELSE Min(idx, Len(a))
    IN  IF start >= Len(a) THEN a
        ELSE SubSeq(a, 1, start) \o SubSeq(a, start + 2, Len(a))

\* a removal without the last-block guard
removeBlockAlways(bs, idx) == SpliceOut(bs, idx)

removeBlock(bs, idx) ==
    IF Len(bs) <= 1 THEN clearBlock(bs, 0) ELSE SpliceOut(bs, idx)

Keys(b) == DOMAIN b.tracks

(***************************************************************************)
(* BassSynth and DrumSynth configuration.                                  *)
(***************************************************************************)
DefaultParams ==
    [volume |-> 85, distortion |-> 20, distTone |-> 100, distGain |-> 60,
     cutoff |-> 40, resonance |-> 8, envMod |-> 60, decay |-> 40,
     accentInt |-> 50, waveform |-> "sawtooth"]

NewBassSynth(id) == [id |-> id, params |-> DefaultParams]

ChannelTypes == <<"kick", "snare", "clap", "chat", "ohat", "ltom", "htom", "crash", "perc">>
ChannelVolumes == <<90, 85, 80, 75, 75, 80, 80, 70, 75>>

\* the characters of a channel's type tag
TypeStr(t) ==
    CASE t = "kick" -> <<"k", "i", "c", "k">>
      [] t = "snare" -> <<"s", "n", "a", "r", "e">>
      [] t = "clap" -> <<"c", "l", "a", "p">>
      [] t = "chat" -> <<"c", "h", "a", "t">>
      [] t = "ohat" -> <<"o", "h", "a", "t">>
      [] t = "ltom" -> <<"l", "t", "o", "m">>
      [] t = "htom" -> <<"h", "t", "o", "m">>
      [] t = "crash" -> <<"c", "r", "a", "s", "h">>
      [] t = "perc" -> <<"p", "e", "r", "c">>

DefaultChannels ==
    [i \in 1..NumChannels |->
        [id |-> i - 1, type |-> ChannelTypes[i], variant |-> 1,
         volume |-> ChannelVolumes[i], colorId |-> i - 1]]

DefaultMasterVolume == 85

\* Math.max(0, Math.min(100, val)); NaN stays NaN
Clamp100(v) == IF IsNaN(v) THEN NaN ELSE Max(0, Min(100, v))

\* AudioParam.setTargetAtTime(target, ...) throws a TypeError for a target that
\* is not finite; the gain passed is (volume / 100) ** 1.5, NaN exactly when
\* the volume is.  The call is made only when the gain node exists.
GainCallThrows(volume, ready) == ready /\ IsNaN(volume)

getSynthIndex(synths, id) ==
    IF \E i \in 1..Len(synths) : synths[i].id = id
    THEN CHOOSE i \in 1..Len(synths) : synths[i].id = id /\ \A j \in 1..(i - 1) : synths[j].id # id
    ELSE 0

SynthIds(synths) == {synths[i].id : i \in 1..Len(synths)}

(***************************************************************************)
(* The session: what the codecs read and replace.                          *)
(***************************************************************************)
Session ==
    [bpm |-> bpm, blocks |-> blocks, bassSynths |-> bassSynths,
     masterVolume |-> masterVolume, channels |-> channels]

(***************************************************************************)
(* CSV export.                                                             *)
(***************************************************************************)
Dash == "-"

\* a bass cell: 0, or <pitch index>-<octave>-<slide bit>-<accent bit>
NoteCell(n) ==
    IF n = Null THEN <<"0">>
    ELSE NumStr(noteMap(n.note)) \o <<Dash>> \o NumStr(n.octave) \o <<Dash>>
         \o (IF n.slide THEN <<"1">> ELSE <<"0">>) \o <<Dash>>
         \o (IF n.accent THEN <<"1">> ELSE <<"0">>)

SynthConfigStr(synth) ==
    LET p == synth.params
    IN  synth.id \o <<":">>
        \o Join(<<NumStr(p.volume), NumStr(p.distortion), NumStr(p.distTone),
                  NumStr(p.distGain), NumStr(p.cutoff), NumStr(p.resonance),
                  NumStr(p.envMod), NumStr(p.decay), NumStr(p.accentInt),
                  IF p.waveform = "square" THEN <<"1">> ELSE <<"0">>>>, Dash)

\* the cells of one synth row: for each block, for each step
BassCells(bs, id) ==
    [g \in 1..(Len(bs) * totalSteps) |->
        LET b == bs[((g - 1) \div totalSteps) + 1]
            s == ((g - 1) % totalSteps) + 1
        IN  NoteCell(IF id \in DOMAIN b.tracks THEN b.tracks[id][s] ELSE Null)]

DrumConfigStr(mv, chs) ==
    Join(<<DrumsTag \o <<":">> \o NumStr(mv) \o <<":">> \o NumStr(Len(chs))>>
         \o [i \in 1..Len(chs) |->
                TypeStr(chs[i].type) \o <<Dash>> \o NumStr(chs[i].variant) \o <<Dash>>
                \o NumStr(chs[i].volume) \o <<Dash>> \o NumStr(chs[i].colorId)], "|")

SeqIncludes(a, x) == \E i \in 1..Len(a) : a[i] = x

\* a drum cell that leaves out the channels whose variant is 0
DrumBinarySkipsDisabled(dStep, chs) ==
    LET RECURSIVE Bits(_)
        Bits(i) == IF i > Len(chs) THEN <<>>
                   ELSE (IF chs[i].variant = 0 THEN <<>>
                         ELSE IF SeqIncludes(dStep, chs[i].id) THEN <<"1">> ELSE <<"0">>)
                        \o Bits(i + 1)
    IN  Bits(1)

\* one character per channel, in channel order: 1 when the step lists the channel id
DrumBinary(dStep, chs) ==
    [i \in 1..Len(chs) |-> IF SeqIncludes(dStep, chs[i].id) THEN "1" ELSE "0"]

DrumCells(bs, chs) ==
    [g \in 1..(Len(bs) * totalSteps) |->
        DrumBinary(bs[((g - 1) \div totalSteps) + 1].drums[((g - 1) % totalSteps) + 1], chs)]

\* a header whose step-number loop stops one cell early
CsvHeaderShort(S) ==
    LET total == Len(S.blocks) * totalSteps
    IN  <<NumStr(S.bpm) \o <<Dash>> \o NumStr(total) \o <<Dash>> \o NumStr(Len(S.bassSynths))>>
        \o [i \in 1..(total - 1) |-> NumStr(i)]

CsvHeader(S) ==
    LET total == Len(S.blocks) * totalSteps
    IN  <<NumStr(S.bpm) \o <<Dash>> \o NumStr(total) \o <<Dash>> \o NumStr(Len(S.bassSynths))>>
        \o [i \in 1..total |-> NumStr(i)]

exportToCSV(S) ==
    <<CsvHeader(S)>>
    \o [k \in 1..Len(S.bassSynths) |->
            <<SynthConfigStr(S.bassSynths[k])>> \o BassCells(S.blocks, S.bassSynths[k].id)]
    \o <<(<<DrumConfigStr(S.masterVolume, S.channels)>> \o DrumCells(S.blocks, S.channels))>>

(***************************************************************************)
(* CSV import.  The import is a sequential program that can be left by an  *)
(* exception at any call; its state is the record st, whose field threw    *)
(* says an exception is on its way to the catch clause.                    *)
(***************************************************************************)
The(S) == CHOOSE x \in S : TRUE      \* the element of a singleton

CeilDiv(a, b) == IF a <= 0 THEN 0 ELSE (a + b - 1) \div b    \* Math.ceil(a / b), b > 0

RECURSIVE AddBlocks(_, _)
AddBlocks(bs, n) == IF n <= 0 THEN bs ELSE AddBlocks(addBlock(bs), n - 1)

\* the note a bass cell stores, or Null when the cell is skipped
ParseNoteCell(noteData) ==
    IF noteData = <<>> \/ noteData = <<"0">> THEN Null
    ELSE LET nParts == Split(noteData, Dash)
             noteInt == ParseInt(nParts[1])
         IN  IF Len(nParts) = 4 /\ noteInt >= 0 /\ noteInt <= 12
             THEN [note |-> noteMapRev[noteInt + 1], octave |-> ParseInt(nParts[2]),
                   slide |-> nParts[3] = <<"1">>, accent |-> nParts[4] = <<"1">>]
             ELSE Null

\* the channel indices whose bit is '1'
RECURSIVE ActiveDrums(_, _)
ActiveDrums(binary, bit) ==
    IF bit >= Len(binary) THEN <<>>
    ELSE (IF binary[bit + 1] = "1" THEN <<bit>> ELSE <<>>) \o ActiveDrums(binary, bit + 1)

\* a channel loop that leaves the colour of a channel alone when the entry
\* has none
RECURSIVE ImportChannelsKeepColor(_, _, _, _)
ImportChannelsKeepColor(chs, parts, c, ready) ==
    IF c >= Len(parts) THEN [channels |-> chs, threw |-> FALSE]
    ELSE LET chData == Split(RemoveFirst(RemoveFirst(parts[c + 1], "["), "]"), Dash)
             chIdx == c - 1
         IN  IF chIdx >= Len(chs) THEN ImportChannelsKeepColor(chs, parts, c + 1, ready)
             ELSE LET variant == ParseInt(At(chData, 1))
                      vol == Clamp100(ParseInt(At(chData, 2)))
                      colId == ParseInt(At(chData, 3))
                      set == [chs EXCEPT ![chIdx + 1].variant = variant,
                                         ![chIdx + 1].volume = vol]
                  IN  IF GainCallThrows(vol, ready)
                      THEN [channels |-> set, threw |-> TRUE]
                      ELSE ImportChannelsKeepColor(
                               [set EXCEPT ![chIdx + 1].colorId =
                                    IF IsNaN(colId) THEN @ ELSE colId],
                               parts, c + 1, ready)

\* the channel loop of the drums line, from part c on
RECURSIVE ImportChannels(_, _, _, _)
ImportChannels(chs, parts, c, ready) ==
    IF c >= Len(parts) THEN [channels |-> chs, threw |-> FALSE]
    ELSE LET chData == Split(RemoveFirst(RemoveFirst(parts[c + 1], "["), "]"), Dash)
             chIdx == c - 1
         IN  IF chIdx >= Len(chs) THEN ImportChannels(chs, parts, c + 1, ready)
             ELSE LET variant == ParseInt(At(chData, 1))
                      vol == Clamp100(ParseInt(At(chData, 2)))
                      colId == ParseInt(At(chData, 3))
                      set == [chs EXCEPT ![chIdx + 1].variant = variant,
                                         ![chIdx + 1].volume = vol]
                  IN  IF GainCallThrows(vol, ready)
                      THEN [channels |-> set, threw |-> TRUE]
                      ELSE ImportChannels(
                               [set EXCEPT ![chIdx + 1].colorId =
                                    IF IsNaN(colId) THEN chIdx ELSE colId],
                               parts, c + 1, ready)

\* the grid of the drums line: every non-empty cell replaces its step's list
ImportDrumGrid(bs, cells, total) ==
    [b \in 1..Len(bs) |->
        [bs[b] EXCEPT !.drums =
            [s \in 1..totalSteps |->
                LET g == (b - 1) * totalSteps + (s - 1)
                    binary == At(cells, g + 1)
                IN  IF g < total /\ binary # <<>> THEN ActiveDrums(binary, 0)
                    ELSE bs[b].drums[s]]]]

ImportDrumLine(st, cells, total, ready) ==
    LET parts == Split(cells[1], "|")
        mainHeader == Split(parts[1], ":")
        mv == Clamp100(ParseInt(At(mainHeader, 1)))
        r == ImportChannels(st.channels, parts, 1, ready)
    IN  IF GainCallThrows(mv, ready)
        THEN [st EXCEPT !.masterVolume = mv, !.threw = TRUE]
        ELSE IF r.threw
        THEN [st EXCEPT !.masterVolume = mv, !.channels = r.channels, !.threw = TRUE]
        ELSE [st EXCEPT !.masterVolume = mv, !.channels = r.channels,
                        !.blocks = ImportDrumGrid(st.blocks, cells, total)]

\* the setters of a synth line, in the order of the code; the tone and the
\* post-gain setters reach an AudioParam when the FX chain exists
ImportParams(p, pVals, ready) ==
    LET p1 == [p EXCEPT !.volume = pVals[1], !.distortion = pVals[2], !.distTone = pVals[3]]
        p2 == [p1 EXCEPT !.distGain = pVals[4]]
        p3 == [p2 EXCEPT !.cutoff = pVals[5], !.resonance = pVals[6], !.envMod = pVals[7],
                         !.decay = pVals[8], !.accentInt = pVals[9],
                         !.waveform = IF pVals[10] = 1 THEN "square" ELSE "sawtooth"]
    IN  IF GainCallThrows(pVals[3], ready) THEN [params |-> p1, threw |-> TRUE]
        ELSE IF GainCallThrows(pVals[4], ready) THEN [params |-> p2, threw |-> TRUE]
        ELSE [params |-> p3, threw |-> FALSE]

ImportBassGrid(bs, id, cells, total) ==
    [b \in 1..Len(bs) |->
        [bs[b] EXCEPT !.tracks[id] =
            [s \in 1..totalSteps |->
                LET g == (b - 1) * totalSteps + (s - 1)
                    n == ParseNoteCell(At(cells, g + 1))
                IN  IF g < total /\ n # Null THEN n ELSE bs[b].tracks[id][s]]]]

ImportBassLine(st, cells, total, ready) ==
    LET parts == Split(cells[1], ":")
        id == parts[1]
        pStrs == Split(parts[2], Dash)
        pVals == [i \in 1..Len(pStrs) |-> ToNumber(pStrs[i])]
        found == getSynthIndex(st.bassSynths, id)
        \* getSynth(id), or addBassSynth(id), which also registers the track
        synths == IF found > 0 THEN st.bassSynths ELSE Append(st.bassSynths, NewBassSynth(id))
        bs0 == IF found > 0 THEN st.blocks ELSE registerTrack(st.blocks, id)
        k == IF found > 0 THEN found ELSE Len(synths)
        r == IF Len(pVals) >= 10 THEN ImportParams(synths[k].params, pVals, ready)
             ELSE [params |-> synths[k].params, threw |-> FALSE]
        synths1 == [synths EXCEPT ![k].params = r.params]
    IN  IF r.threw THEN [st EXCEPT !.bassSynths = synths1, !.blocks = bs0, !.threw = TRUE]
        ELSE [st EXCEPT !.bassSynths = synths1,
                        !.blocks = ImportBassGrid(registerTrack(bs0, id), id, cells, total)]

RECURSIVE ImportLines(_, _, _, _, _)
ImportLines(st, lines, i, total, ready) ==
    IF st.threw \/ i > Len(lines) THEN st
    ELSE LET cells == lines[i]
             configCell == cells[1]
             st1 == IF StartsWith(configCell, DrumsTag) THEN ImportDrumLine(st, cells, total, ready)
                    ELSE IF Includes(configCell, ":") THEN ImportBassLine(st, cells, total, ready)
                    ELSE st
         IN  ImportLines(st1, lines, i + 1, total, ready)

\* importFromCSV(csvData) on the session S: the value returned (ok) and the
\* session it leaves
importFromCSV(text, S, ready) ==
    LET meta == Split(text[1][1], Dash)
        newBpm == ParseInt(meta[1])
        total == ParseInt(At(meta, 1))
        st0 == [bpm |-> newBpm, blocks |-> AddBlocks(<<>>, CeilDiv(total, totalSteps)),
                bassSynths |-> S.bassSynths, masterVolume |-> S.masterVolume,
                channels |-> S.channels, threw |-> FALSE]
    IN  IF Len(text) < 2 THEN [ok |-> FALSE, session |-> S]           \* "Invalid Data"
        ELSE IF IsNaN(newBpm) \/ IsNaN(total) THEN [ok |-> FALSE, session |-> S]  \* "Invalid Metadata"
        ELSE The({[ok |-> ~st.threw,
                   session |-> [bpm |-> st.bpm, blocks |-> st.blocks,
                                bassSynths |-> st.bassSynths,
                                masterVolume |-> st.masterVolume, channels |-> st.channels]] :
                      st \in {ImportLines(st0, text, 2, total, ready)}})

(***************************************************************************)
(* The state after construction (window.AppState, new TimeMatrix(),        *)
(* new DrumSynth(), AudioEngine.init()).                                   *)
(***************************************************************************)
NoSwap == 0 - 1               \* pendingColorSwap = null
NoClip == <<>>                \* clipboard = null

\* the last call: its name, its arguments, its result and, for the calls whose
\* effect is stated against the session before them, that session
NoPre == <<>>
Op(name, idx, id, ok, pre) == [op |-> name, idx |-> idx, id |-> id, ok |-> ok, pre |-> pre]

InitialBlocks == addBlock(<<>>)
InitialSynths == <<NewBassSynth(BassId(1))>>
InitialSession ==
    [bpm |-> DefaultBpm, blocks |-> InitialBlocks, bassSynths |-> InitialSynths,
     masterVolume |-> DefaultMasterVolume, channels |-> DefaultChannels]

\* everything but the session, the active view, audioReady and the clock
\* worker
InitRest0 ==
    /\ clipboard = NoClip
    /\ editingBlock = 0
    /\ selectedStep = 0
    /\ currentOctave = 3
    /\ pendingColorSwap = NoSwap
    /\ isPlaying = FALSE
    /\ currentPlayStep = 0
    /\ currentPlayBlock = 0
    /\ nextNoteTime = 0
    /\ visualQueue = <<>>
    /\ ctxTime = 0
    /\ timerID = FALSE
    /\ workerInbox = <<>>
    /\ ticksInFlight = 0
    /\ csvArea = <<>>
    /\ midiFile = <<>>
    /\ trigLog = <<>>
    /\ alias = {}
    /\ offlineLog = <<>>
    /\ toggled = "none"

\* initWorker() runs in init() once the audio context is made: the usual
\* start has a worker when it has a context
InitRest ==
    /\ InitRest0
    /\ clockWorker = audioReady

SessionIs(S) ==
    /\ bpm = S.bpm
    /\ blocks = S.blocks
    /\ bassSynths = S.bassSynths
    /\ masterVolume = S.masterVolume
    /\ channels = S.channels

SessionBecomes(S) ==
    /\ bpm' = S.bpm
    /\ blocks' = S.blocks
    /\ bassSynths' = S.bassSynths
    /\ masterVolume' = S.masterVolume
    /\ channels' = S.channels

Init ==
    /\ SessionIs(InitialSession)
    /\ audioReady \in BOOLEAN
    /\ activeView = BassId(1)
    /\ InitRest
    /\ last = Op("init", 0, <<>>, TRUE, InitialSession)

(***************************************************************************)
(* AudioEngine: the synth list.                                            *)
(***************************************************************************)
RECURSIVE SeqOfSet(_)
SeqOfSet(S) == IF S = {} THEN <<>>
               ELSE LET x == CHOOSE y \in S : TRUE IN <<x>> \o SeqOfSet(S \ {x})

RECURSIVE FilterSynths(_, _)
FilterSynths(synths, ids) ==
    IF synths = <<>> THEN <<>>
    ELSE (IF synths[1].id \in ids THEN <<synths[1]>> ELSE <<>>) \o FilterSynths(Tail(synths), ids)

AllKeys(bs) == UNION {DOMAIN bs[i].tracks : i \in 1..Len(bs)}

\* syncWithMatrix(matrix): drop the synths without a track, add a synth (and,
\* through addBassSynth, the track in every block) for each track without one
RECURSIVE AddSynths(_, _)
AddSynths(S, ids) ==
    IF ids = <<>> THEN S
    ELSE AddSynths([S EXCEPT !.bassSynths = Append(@, NewBassSynth(ids[1])),
                             !.blocks = registerTrack(@, ids[1])], Tail(ids))

syncWithMatrix(S) ==
    LET activeIds == AllKeys(S.blocks)
        kept == FilterSynths(S.bassSynths, activeIds)
    IN  AddSynths([S EXCEPT !.bassSynths = kept], SeqOfSet(activeIds \ SynthIds(kept)))

(***************************************************************************)
(* The CSV buttons.                                                        *)
(***************************************************************************)
\* btn-gen-csv
BtnGenCsv ==
    /\ csvArea' = exportToCSV(Session)
    /\ last' = Op("genCSV", 0, <<>>, TRUE, Session)
    /\ UNCHANGED <<blocks, clipboard, bassSynths, masterVolume, channels, bpm, editVars,
                   pendingColorSwap, audioReady, playVars, clockVars, midiFile, trigLog, auxVars>>

\* btn-load-csv: importFromCSV, and after a success syncWithMatrix and fullRefresh
BtnLoadCsv ==
    \E r \in {importFromCSV(csvArea, Session, audioReady)} :
        /\ SessionBecomes(IF r.ok THEN syncWithMatrix(r.session) ELSE r.session)
        /\ editingBlock' = IF r.ok THEN 0 ELSE editingBlock
        /\ last' = Op("loadCSV", 0, <<>>, r.ok, Session)
        /\ UNCHANGED <<clipboard, selectedStep, activeView, currentOctave, pendingColorSwap,
                       audioReady, playVars, clockVars, ioVars, trigLog, auxVars>>

(***************************************************************************)
(* CSV codec specification: the session is drawn from a family of sessions *)
(* the editor can build, and the CSV buttons act on it.                    *)
(*   - synth lists: bass-1..bass-k ("add synth" pressed k-1 times), and    *)
(*     bass-2..bass-k (bass-1 removed afterwards in the synth menu);       *)
(*   - notes placed with the keyboard in octaves 1..6, slide and accent    *)
(*     toggled; drum hits toggled in any order; channel variants, volumes  *)
(*     set in the drum editor and colours swapped in the config menu.      *)
(***************************************************************************)
SynthSeqChoices ==
    {[i \in 1..k |-> BassId(i)] : k \in 1..MaxSynths}
    \cup {[i \in 1..(k - 1) |-> BassId(i + 1)] : k \in 2..MaxSynths}

Note(n, o, sl, ac) == [note |-> n, octave |-> o, slide |-> sl, accent |-> ac]

PlaceAt(bs, b, id, s, n) == [bs EXCEPT ![b].tracks[id][s + 1] = n]
HitsAt(bs, b, s, hits) == [bs EXCEPT ![b].drums[s + 1] = hits]

BlocksFor(nb, ids) ==
    [b \in 1..nb |-> [tracks |-> [id \in {ids[i] : i \in 1..Len(ids)} |-> EmptyTrack],
                      drums |-> EmptyDrums]]

NotePattern(bs, ids, np) ==
    LET first == ids[1]
        lastId == ids[Len(ids)]
        nb == Len(bs)
    IN  CASE np = 0 -> bs
          [] np = 1 -> PlaceAt(bs, 1, first, 0, Note("C", 3, FALSE, FALSE))
          [] np = 2 -> PlaceAt(PlaceAt(PlaceAt(bs, 1, first, 0, Note("C", 3, FALSE, FALSE)),
                                       nb, lastId, 15, Note("B", 6, TRUE, TRUE)),
                               1, lastId, 7, Note("A#", 1, FALSE, TRUE))

DrumPattern(bs, dp) ==
    CASE dp = 0 -> bs
      [] dp = 1 -> HitsAt(bs, 1, 0, <<0>>)
      [] dp = 2 -> HitsAt(HitsAt(HitsAt(bs, Len(bs), 15, <<8, 0>>), 1, 0, <<4>>),
                          1, 3, <<0, 1, 2, 3, 4, 5, 6, 7, 8>>)

ChannelConfig(cc) ==
    CASE cc = 0 -> DefaultChannels
      [] cc = 1 -> [DefaultChannels EXCEPT ![1].variant = 0, ![9].volume = 100, ![4].volume = 0]
      [] cc = 2 -> [DefaultChannels EXCEPT ![1].colorId = 8, ![9].colorId = 0,
                                           ![1].variant = 0, ![2].variant = 4]

\* <<note pattern, drum pattern, channel configuration>>
ContentChoices == {<<0, 0, 0>>, <<1, 2, 1>>, <<2, 1, 2>>, <<2, 2, 0>>}

CsvSessions ==
    {[bpm |-> IF c[1] = 1 THEN 120 ELSE DefaultBpm,
      blocks |-> DrumPattern(NotePattern(BlocksFor(nb, ids), ids, c[1]), c[2]),
      bassSynths |-> [i \in 1..Len(ids) |-> NewBassSynth(ids[i])],
      masterVolume |-> IF c[3] = 1 THEN 100 ELSE DefaultMasterVolume,
      channels |-> ChannelConfig(c[3])] :
        nb \in 1..MaxBlocks, ids \in SynthSeqChoices, c \in ContentChoices}

InitCSV ==
    /\ \E S \in CsvSessions : /\ SessionIs(S)
                               /\ activeView = S.bassSynths[1].id
                               /\ last = Op("init", 0, <<>>, TRUE, S)
    /\ audioReady \in BOOLEAN
    /\ InitRest

\* texts typed or pasted into the csv-io-area
XParams == <<"x", Dash, "x", Dash, "x", Dash, "x", Dash, "x", Dash, "x", Dash, "x", Dash,
             "x", Dash, "x", Dash, "x">>

TypedTexts ==
    { <<>>,                                                          \* nothing
      <<CsvHeader(InitialSession)>>,                                 \* a header alone
      <<(<<(<<"x">> \o <<Dash>> \o NumStr(16) \o <<Dash, "1">>)>>), <<DrumsTag>>>>,  \* BPM not a number
      <<(<<NumStr(120)>>), <<DrumsTag>>>>,                           \* no step count
      <<(<<(NumStr(120) \o <<Dash>> \o NumStr(16) \o <<Dash, "1">>)>>), <<DrumsTag>>>>,  \* drums line without volume
      <<(<<(NumStr(120) \o <<Dash>> \o NumStr(16) \o <<Dash, "1">>)>>),
        <<(BassId(1) \o <<":">> \o XParams), <<"0">>>>>> }           \* synth line with unreadable parameters

\* the text area of the CSV modal receives one of the texts of T
TypeText(T) ==
    \E t \in T :
        /\ csvArea' = t
        /\ last' = Op("typeCSV", 0, <<>>, TRUE, Session)
        /\ UNCHANGED <<blocks, clipboard, bassSynths, masterVolume, channels, bpm, editVars,
                       pendingColorSwap, audioReady, playVars, clockVars, midiFile, trigLog, auxVars>>

TypeCsv == TypeText(TypedTexts)

NextCSV == BtnGenCsv \/ BtnLoadCsv \/ TypeCsv

SpecCSV == InitCSV /\ [][NextCSV]_vars

\* C1: importFromCSV(exportToCSV(session)) gives a session with the same BPM,
\* block count, track-key set, notes, drum-hit sets and drum channel
\* {variant, volume, colorId}.
SameDrumSets(bs1, bs2) ==
    \A b \in 1..Len(bs1) : \A s \in 1..totalSteps :
        {bs1[b].drums[s][i] : i \in 1..Len(bs1[b].drums[s])}
        = {bs2[b].drums[s][i] : i \in 1..Len(bs2[b].drums[s])}

SameChannelConfig(c1, c2) ==
    /\ Len(c1) = Len(c2)
    /\ \A i \in 1..Len(c1) : /\ c1[i].variant = c2[i].variant
                             /\ c1[i].volume = c2[i].volume
                             /\ c1[i].colorId = c2[i].colorId

RoundTripSame(S, R) ==
    /\ R.bpm = S.bpm
    /\ Len(R.blocks) = Len(S.blocks)
    /\ \A b \in 1..Len(S.blocks) : R.blocks[b].tracks = S.blocks[b].tracks
    /\ SameDrumSets(S.blocks, R.blocks)
    /\ SameChannelConfig(S.channels, R.channels)

C1_RoundTrip ==
    LET r == importFromCSV(exportToCSV(Session), Session, audioReady)
    IN  r.ok /\ RoundTripSame(Session, r.session)

(***************************************************************************)
(* Block store specification: the four structural calls of TimeMatrix     *)
(* (addBlock, removeBlock, registerTrack, removeTrack) in any order, and   *)
(* the two editor gestures that put content into a block.                 *)
(***************************************************************************)
TrackIds == {BassId(n) : n \in 1..MaxSynths}

\* the number of notes and drum hits in the block list
RECURSIVE SumOver(_, _)
SumOver(f, S) == IF S = {} THEN 0
                 ELSE LET x == CHOOSE y \in S : TRUE IN f[x] + SumOver(f, S \ {x})

MarksIn(b) ==
    SumOver([k \in Keys(b) |-> Cardinality({s \in 1..totalSteps : b.tracks[k][s] # Null})], Keys(b))
    + Cardinality({s \in 1..totalSteps : b.drums[s] # <<>>})

Marks(bs) == SumOver([i \in 1..Len(bs) |-> MarksIn(bs[i])], 1..Len(bs))

StoreUnchanged ==
    UNCHANGED <<clipboard, bassSynths, masterVolume, channels, bpm, selectedStep, currentOctave,
                pendingColorSwap, audioReady, playVars, clockVars, ioVars, trigLog, auxVars>>

StoreAddBlock ==
    /\ Len(blocks) < MaxBlocks
    /\ blocks' = addBlock(blocks)
    /\ last' = Op("addBlock", 0, <<>>, TRUE, NoPre)
    /\ UNCHANGED <<editingBlock, activeView>>
    /\ StoreUnchanged

StoreRemoveBlock ==
    \E idx \in (0 - 1)..MaxBlocks :
        /\ blocks' = removeBlock(blocks, idx)
        /\ last' = Op("removeBlock", idx, <<>>, TRUE, Session)
        /\ UNCHANGED <<editingBlock, activeView>>
        /\ StoreUnchanged

StoreRegisterTrack ==
    \E id \in TrackIds :
        /\ blocks' = registerTrack(blocks, id)
        /\ last' = Op("registerTrack", 0, <<>>, TRUE, NoPre)
        /\ UNCHANGED <<editingBlock, activeView>>
        /\ StoreUnchanged

StoreRemoveTrack ==
    \E id \in TrackIds :
        /\ blocks' = removeTrack(blocks, id)
        /\ last' = Op("removeTrack", 0, <<>>, TRUE, NoPre)
        /\ UNCHANGED <<editingBlock, activeView>>
        /\ StoreUnchanged

\* the write of placeNote('C') into the selected step of block b, track id
\* (the block and the track the editor is on)
StoreWriteNote ==
    \E b \in 0..(Len(blocks) - 1) : \E id \in Keys(blocks[b + 1]) :
        LET prev == blocks[b + 1].tracks[id][selectedStep + 1]
        IN  /\ prev # Null \/ Marks(blocks) < MaxMarks
            /\ blocks' = [blocks EXCEPT ![b + 1].tracks[id][selectedStep + 1] =
                              [note |-> "C", octave |-> currentOctave,
                               slide |-> IF prev # Null THEN prev.slide ELSE FALSE,
                               accent |-> IF prev # Null THEN prev.accent ELSE FALSE]]
            /\ last' = Op("placeNote", 0, <<>>, TRUE, NoPre)
            /\ UNCHANGED <<editingBlock, activeView>>
            /\ StoreUnchanged

\* a click on the kick row of the drum editor, on the selected step of block
\* b: the hit is pushed, or spliced out
StoreToggleHit ==
    \E b \in 0..(Len(blocks) - 1) :
        LET cur == blocks[b + 1].drums[selectedStep + 1]
        IN  /\ cur # <<>> \/ Marks(blocks) < MaxMarks
            /\ blocks' = [blocks EXCEPT ![b + 1].drums[selectedStep + 1] =
                              IF SeqIncludes(cur, 0) THEN SelectSeq(cur, LAMBDA x : x # 0)
                              ELSE Append(cur, 0)]
            /\ last' = Op("toggleDrum", 0, <<>>, TRUE, NoPre)
            /\ UNCHANGED <<editingBlock, activeView>>
            /\ StoreUnchanged

NextStore ==
    \/ StoreAddBlock
    \/ StoreRemoveBlock
    \/ StoreRegisterTrack
    \/ StoreRemoveTrack
    \/ StoreWriteNote
    \/ StoreToggleHit

SpecStore == Init /\ [][NextStore]_vars

\* C3: after any sequence of addBlock, removeBlock, registerTrack and
\* removeTrack calls all blocks have the same set of track keys, and every
\* track array and every drums array has exactly totalSteps (16) entries.
C3_BlockInvariant ==
    \A b \in 1..Len(blocks) :
        /\ Keys(blocks[b]) = Keys(blocks[1])
        /\ \A k \in Keys(blocks[b]) : Len(blocks[b].tracks[k]) = totalSteps
        /\ Len(blocks[b].drums) = totalSteps

C3_Witness ==
    /\ last.op = "addBlock"
    /\ Len(blocks) = MaxBlocks
    /\ Keys(blocks[1]) = {BassId(2)}
    /\ Keys(blocks[Len(blocks)]) = {BassId(2)}

\* C4: removeBlock(index) with exactly one block keeps one block, with its
\* track keys, every note slot null and every drum step empty; with more than
\* one block it removes exactly the block at index and shifts the later
\* blocks down by one.
BlockIsClear(b) ==
    /\ \A k \in Keys(b) : \A s \in 1..totalSteps : b.tracks[k][s] = Null
    /\ \A s \in 1..totalSteps : b.drums[s] = <<>>

BlockHasContent(b) ==
    /\ \E k \in Keys(b) : \E s \in 1..totalSteps : b.tracks[k][s] # Null
    /\ \E s \in 1..totalSteps : b.drums[s] # <<>>

C4_RemoveBlock ==
    last.op = "removeBlock" =>
        LET old == last.pre.blocks
        IN  IF Len(old) = 1
            THEN /\ Len(blocks) = 1
                 /\ Keys(blocks[1]) = Keys(old[1])
                 /\ BlockIsClear(blocks[1])
            ELSE (last.idx >= 0 /\ last.idx < Len(old)) =>
                     /\ Len(blocks) = Len(old) - 1
                     /\ \A i \in 1..Len(blocks) :
                            blocks[i] = IF i <= last.idx THEN old[i] ELSE old[i + 1]

C4_Witness ==
    /\ last.op = "removeBlock"
    /\ Len(last.pre.blocks) = 1
    /\ BlockHasContent(last.pre.blocks[1])
    /\ Len(blocks) = 1
    /\ BlockIsClear(blocks[1])

\* The session the round trip loses: the synth list no longer holds bass-1
\* (removed in the synth menu), yet importFromCSV rebuilds every block with
\* addBlock(), whose blocks start with a 'bass-1' track.
C1_PhantomTrack ==
    LET r == importFromCSV(exportToCSV(Session), Session, audioReady)
    IN  /\ BassId(1) \notin AllKeys(blocks)
        /\ r.ok
        /\ BassId(1) \in AllKeys(r.session.blocks)

\* C7: in the text written by exportToCSV every row (header, one row per bass
\* synth, drum row) has exactly blockCount * stepsPerBlock cells after its
\* first field, and the second number of the header's first field is that count.
HeaderStepCount(text) == ParseInt(At(Split(text[1][1], Dash), 1))

C7_CellCount ==
    last.op = "genCSV" =>
        /\ Len(csvArea) = Len(bassSynths) + 2
        /\ \A r \in 1..Len(csvArea) : Len(csvArea[r]) - 1 = Len(blocks) * totalSteps
        /\ HeaderStepCount(csvArea) = Len(blocks) * totalSteps

C7_Witness ==
    /\ last.op = "genCSV"
    /\ Len(blocks) = MaxBlocks
    /\ Len(bassSynths) >= 2
    /\ Len(csvArea[Len(csvArea)]) = MaxBlocks * totalSteps + 1

\* C8: every drum cell written by exportToCSV has exactly 9 characters, each 0
\* or 1, and the character at position i is 1 exactly when channel index i is
\* in the hit list of that step, whatever the variant of the channel.
DrumRow(text) == text[Len(text)]

C8_DrumBits ==
    last.op = "genCSV" =>
        \A b \in 1..Len(blocks) : \A s \in 1..totalSteps :
            LET cell == DrumRow(csvArea)[(b - 1) * totalSteps + s + 1]
            IN  /\ Len(cell) = NumChannels
                /\ \A i \in 0..(NumChannels - 1) :
                       /\ cell[i + 1] \in {"0", "1"}
                       /\ cell[i + 1] = "1" <=> SeqIncludes(blocks[b].drums[s], i)

C8_Witness ==
    /\ last.op = "genCSV"
    /\ channels[1].variant = 0
    /\ \E b \in 1..Len(blocks) : \E s \in 1..totalSteps :
          /\ SeqIncludes(blocks[b].drums[s], 0)
          /\ SeqIncludes(blocks[b].drums[s], 8)
          /\ DrumRow(csvArea)[(b - 1) * totalSteps + s + 1]
                = <<"1", "0", "0", "0", "0", "0", "0", "0", "1">>

\* C9: when importFromCSV returns false the session (BPM, blocks, bass synths
\* and their parameters, drum master volume and channels) is as before the call.
C9_FailedImportAtomic ==
    (last.op = "loadCSV" /\ ~last.ok) => Session = last.pre

(***************************************************************************)
(* Colour swap specification: clicks on the colour buttons of the drum     *)
(* configuration menu.                                                     *)
(***************************************************************************)
\* a swap that copies the target's colour to the source and forgets the other half
swapColorIdsOneWay(chs, srcId, targetId) ==
    [chs EXCEPT ![srcId + 1].colorId = chs[targetId + 1].colorId]

\* a swap that exchanges the two channel objects instead of their colours
swapChannelObjects(chs, srcId, targetId) ==
    [chs EXCEPT ![srcId + 1] = chs[targetId + 1],
                ![targetId + 1] = chs[srcId + 1]]

\* tempCol = src.colorId; src.colorId = target.colorId; target.colorId = tempCol
swapColorIds(chs, srcId, targetId) ==
    [chs EXCEPT ![srcId + 1].colorId = chs[targetId + 1].colorId,
                ![targetId + 1].colorId = chs[srcId + 1].colorId]

\* handleColorSwap(id)
HandleColorSwap ==
    \E id \in 0..MaxSwapChannel :
        /\ id < NumChannels
        /\ IF pendingColorSwap = NoSwap
           THEN /\ pendingColorSwap' = id
                /\ UNCHANGED channels
           ELSE IF pendingColorSwap = id
           THEN /\ pendingColorSwap' = NoSwap
                /\ UNCHANGED channels
           ELSE /\ channels' = swapColorIds(channels, pendingColorSwap, id)
                /\ pendingColorSwap' = NoSwap
        /\ last' = Op("colorSwap", id, <<>>, TRUE, pendingColorSwap)
        /\ UNCHANGED <<blocks, clipboard, bassSynths, masterVolume, bpm, editVars,
                       audioReady, playVars, clockVars, ioVars, trigLog, auxVars>>

NextColor == HandleColorSwap

SpecColor == Init /\ [][NextColor]_vars

\* C5: after any sequence of colour-swap clicks the nine colorId values are a
\* permutation of 0..8 (no duplicate, no gap), and no swap is pending after a
\* click that cancelled or executed one.
ColorIds == {channels[i].colorId : i \in 1..Len(channels)}

C5_ColorPermutation ==
    /\ Len(channels) = NumChannels
    /\ ColorIds = 0..(NumChannels - 1)
    /\ \A i, j \in 1..Len(channels) : channels[i].colorId = channels[j].colorId => i = j
    /\ (last.op = "colorSwap" /\ last.pre # NoSwap) => pendingColorSwap = NoSwap

C5_Witness ==
    /\ last.op = "colorSwap"
    /\ last.pre # NoSwap
    /\ last.pre # last.idx
    /\ pendingColorSwap = NoSwap
    /\ channels[1].colorId = 2
    /\ channels[2].colorId = 0
    /\ channels[3].colorId = 1

(***************************************************************************)
(* Transport and scheduler.  Times are exact, in units of 1/UnitsPerSec    *)
(* second; the unit makes the step durations of the BPM values used here   *)
(* whole numbers (174 BPM: 200 units, 120 BPM: 290 units), so no rounding  *)
(* enters the additions of advanceNote.                                    *)
(***************************************************************************)
UnitsPerSec == 232 * 10
lookahead == UnitsPerSec \div 10          \* this.lookahead = 0.1 s
interval == UnitsPerSec \div 40           \* this.interval = 25.0 ms
StartDelay == UnitsPerSec \div 10         \* ctx.currentTime + 0.1
SchedBpms == {DefaultBpm, 120}

\* secPerStep = 60.0 / bpm / 4
SecPerStep(b) == ((60 * UnitsPerSec) \div b) \div 4

\* the state scheduler() works on
SchedState ==
    [nextNoteTime |-> nextNoteTime, step |-> currentPlayStep, block |-> currentPlayBlock,
     visualQueue |-> visualQueue, trigLog |-> trigLog, now |-> ctxTime, bpm |-> bpm,
     nblocks |-> Len(blocks), playing |-> isPlaying,
     blocks |-> blocks, bassSynths |-> bassSynths, channels |-> channels]

\* getStepData(step, block): {} when there is no block at the index
getStepData(bs, step, block) ==
    IF block < 0 \/ block >= Len(bs) THEN [tracks |-> <<>>, drums |-> <<>>]
    ELSE [tracks |-> bs[block + 1].tracks, drums |-> bs[block + 1].drums[step + 1]]

\* data.drums.forEach(id => drumSynth.play(id, time)): play returns at once
\* for an id without a channel and for a channel with variant 0
DrumTriggers(hits, chs) ==
    SelectSeq(hits, LAMBDA id : id >= 0 /\ id < Len(chs) /\ chs[id + 1].variant # 0)

\* Object.keys(data.tracks).forEach(...): the note of each track at the
\* step, played when the track has a synth
RECURSIVE BassTriggersOf(_, _, _, _)
BassTriggersOf(keys, tracks, step, synths) ==
    IF keys = <<>> THEN <<>>
    ELSE LET tid == keys[1]
             noteInfo == tracks[tid][step + 1]
         IN  (IF noteInfo # Null /\ getSynthIndex(synths, tid) > 0
              THEN <<[id |-> tid, note |-> noteInfo.note, octave |-> noteInfo.octave,
                      slide |-> noteInfo.slide, accent |-> noteInfo.accent]>>
              ELSE <<>>) \o BassTriggersOf(Tail(keys), tracks, step, synths)

BassTriggers(tracks, step, synths) ==
    BassTriggersOf(KeysInOrder(DOMAIN tracks), tracks, step, synths)

\* a dispatch that takes the drum hits of the step out of the block as it
\* plays them
scheduleNoteConsume(st) ==
    LET data == getStepData(st.blocks, st.step, st.block)
        has == st.block >= 0 /\ st.block < Len(st.blocks)
    IN  [st EXCEPT !.visualQueue = Append(@, [step |-> st.step, block |-> st.block,
                                              time |-> st.nextNoteTime]),
                   !.trigLog = Append(@, [time |-> st.nextNoteTime, step |-> st.step,
                                          block |-> st.block, bpm |-> st.bpm, at |-> st.now,
                                          playing |-> st.playing, nblocks |-> st.nblocks,
                                          drums |-> DrumTriggers(data.drums, st.channels),
                                          notes |-> BassTriggers(data.tracks, st.step,
                                                                 st.bassSynths)]),
                   !.blocks = IF has
                              THEN [st.blocks EXCEPT ![st.block + 1].drums[st.step + 1] = <<>>]
                              ELSE st.blocks]

\* scheduleNote(step, block, time): the visual marker and the triggers of the step
scheduleNote(st) ==
    LET data == getStepData(st.blocks, st.step, st.block)
    IN  [st EXCEPT !.visualQueue = Append(@, [step |-> st.step, block |-> st.block,
                                              time |-> st.nextNoteTime]),
                   !.trigLog = Append(@, [time |-> st.nextNoteTime, step |-> st.step,
                                          block |-> st.block, bpm |-> st.bpm, at |-> st.now,
                                          playing |-> st.playing, nblocks |-> st.nblocks,
                                          drums |-> DrumTriggers(data.drums, st.channels),
                                          notes |-> BassTriggers(data.tracks, st.step,
                                                                 st.bassSynths)])]

\* a step clock that resynchronises with the audio clock when a tick is late
advanceNoteResync(st) ==
    [st EXCEPT !.nextNoteTime = Max(st.nextNoteTime, st.now) + SecPerStep(st.bpm),
               !.step = (st.step + 1) % totalSteps]

\* a step clock that passes over a step whose time is gone
advanceNoteCatchUp(st) ==
    LET late == st.nextNoteTime + SecPerStep(st.bpm) < st.now
        k == IF late THEN 2 ELSE 1
        wrap == st.step + k >= totalSteps
        nb == IF wrap THEN st.block + 1 ELSE st.block
    IN  [st EXCEPT !.nextNoteTime = st.nextNoteTime + k * SecPerStep(st.bpm),
                   !.step = (st.step + k) % totalSteps,
                   !.block = IF wrap /\ nb >= st.nblocks THEN 0 ELSE nb]

advanceNote(st) ==
    LET wrap == st.step + 1 >= totalSteps
        nb == IF wrap THEN st.block + 1 ELSE st.block
    IN  [st EXCEPT !.nextNoteTime = st.nextNoteTime + SecPerStep(st.bpm),
                   !.step = IF wrap THEN 0 ELSE st.step + 1,
                   !.block = IF wrap /\ nb >= st.nblocks THEN 0 ELSE nb]

\* a refill loop that tops the queue up to half the look-ahead window only
RECURSIVE schedulerHalfWindow(_)
schedulerHalfWindow(st) ==
    IF st.nextNoteTime < st.now + (lookahead \div 2)
    THEN schedulerHalfWindow(advanceNote(scheduleNote(st)))
    ELSE st

\* a refill loop that also dispatches the step due exactly at the end of the
\* look-ahead window
RECURSIVE schedulerInclusive(_)
schedulerInclusive(st) ==
    IF st.nextNoteTime <= st.now + lookahead
    THEN schedulerInclusive(advanceNote(scheduleNote(st)))
    ELSE st

RECURSIVE scheduler(_)
scheduler(st) ==
    IF st.nextNoteTime < st.now + lookahead THEN scheduler(advanceNote(scheduleNote(st)))
    ELSE st

SchedUnchanged ==
    UNCHANGED <<blocks, clipboard, bassSynths, masterVolume, channels, editVars,
                pendingColorSwap, ioVars, last>>

\* toggleTransport while stopped: startPlayback.  init() runs when there is
\* no context yet; acOk says the AudioContext can be made, wkOk the Worker.
\* isPlaying and the play position are set before this.ctx.currentTime is
\* read, which throws when init() left no context.  initSynths finds the
\* synths of the session.
StartPlaybackWith(acOk, wkOk) ==
    LET ctx == audioReady \/ acOk
        worker == clockWorker \/ (~audioReady /\ acOk /\ wkOk)
    IN  /\ ~isPlaying
        /\ Len(workerInbox) < MaxInbox
        /\ audioReady' = ctx
        /\ clockWorker' = worker
        /\ isPlaying' = TRUE
        /\ currentPlayStep' = 0
        /\ currentPlayBlock' = editingBlock
        /\ nextNoteTime' = IF ctx THEN ctxTime + StartDelay ELSE nextNoteTime
        /\ visualQueue' = IF ctx THEN <<>> ELSE visualQueue
        /\ workerInbox' = IF ctx /\ worker THEN Append(workerInbox, "start") ELSE workerInbox
        /\ toggled' = IF ctx THEN "true" ELSE "threw"
        /\ trigLog' = <<>>
        /\ UNCHANGED <<bpm, ctxTime, timerID, ticksInFlight, alias, offlineLog>>
        /\ SchedUnchanged

\* the start in a browser that gives the context and the worker
StartPlayback == StartPlaybackWith(TRUE, TRUE)

\* the start in any browser
StartPlaybackAnywhere == \E acOk, wkOk \in BOOLEAN : StartPlaybackWith(acOk, wkOk)

\* toggleTransport while playing: stopPlayback
StopPlayback ==
    /\ isPlaying
    /\ Len(workerInbox) < MaxInbox
    /\ isPlaying' = FALSE
    /\ workerInbox' = IF clockWorker THEN Append(workerInbox, "stop") ELSE workerInbox
    /\ toggled' = "false"
    /\ UNCHANGED <<bpm, audioReady, currentPlayStep, currentPlayBlock, nextNoteTime, visualQueue,
                   ctxTime, timerID, ticksInFlight, trigLog, alias, clockWorker, offlineLog>>
    /\ SchedUnchanged

\* the worker's onmessage for the oldest message posted to it
WorkerOnMessage ==
    /\ workerInbox # <<>>
    /\ timerID' = IF Head(workerInbox) = "start" THEN TRUE ELSE FALSE
    /\ workerInbox' = Tail(workerInbox)
    /\ UNCHANGED <<bpm, audioReady, playVars, ctxTime, ticksInFlight, trigLog, auxVars>>
    /\ SchedUnchanged

\* the worker's interval timer fires: postMessage("tick")
TimerFires ==
    /\ timerID
    /\ ticksInFlight < MaxTicks
    /\ ticksInFlight' = ticksInFlight + 1
    /\ UNCHANGED <<bpm, audioReady, playVars, ctxTime, timerID, workerInbox, trigLog, auxVars>>
    /\ SchedUnchanged

\* clockWorker.onmessage in the engine: a tick runs scheduler()
TickDelivered ==
    /\ ticksInFlight > 0
    /\ ticksInFlight' = ticksInFlight - 1
    /\ LET st == scheduler(SchedState)
       IN  /\ nextNoteTime' = st.nextNoteTime
           /\ currentPlayStep' = st.step
           /\ currentPlayBlock' = st.block
           /\ visualQueue' = st.visualQueue
           /\ trigLog' = st.trigLog
    /\ UNCHANGED <<bpm, audioReady, isPlaying, ctxTime, timerID, workerInbox, auxVars>>
    /\ SchedUnchanged

\* the audio clock moves on, by one worker interval or by four
ClockAdvances ==
    \E k \in {1, 4} :
        /\ ctxTime + k * interval <= MaxIntervals * interval
        /\ ctxTime' = ctxTime + k * interval
        /\ UNCHANGED <<bpm, audioReady, playVars, timerID, workerInbox, ticksInFlight, trigLog, auxVars>>
        /\ SchedUnchanged

\* a tempo change that moves the time of the next step to where the new
\* tempo would have put it
SetBpmReflow ==
    \E b \in SchedBpms \ {bpm} :
        /\ bpm' = b
        /\ nextNoteTime' = IF isPlaying /\ trigLog # <<>>
                           THEN nextNoteTime - SecPerStep(bpm) + SecPerStep(b)
                           ELSE nextNoteTime
        /\ UNCHANGED <<audioReady, isPlaying, currentPlayStep, currentPlayBlock, visualQueue,
                       clockVars, trigLog, auxVars>>
        /\ SchedUnchanged

\* bpm-input onchange
SetBpm ==
    \E b \in SchedBpms \ {bpm} :
        /\ bpm' = b
        /\ UNCHANGED <<audioReady, playVars, clockVars, trigLog, auxVars>>
        /\ SchedUnchanged

\* renderLoop: the markers that are due leave the queue
RECURSIVE DropDue(_, _)
DropDue(q, now) == IF q # <<>> /\ q[1].time <= now THEN DropDue(Tail(q), now) ELSE q

RenderLoop ==
    /\ audioReady
    /\ visualQueue # <<>>
    /\ visualQueue[1].time <= ctxTime
    /\ visualQueue' = DropDue(visualQueue, ctxTime)
    /\ UNCHANGED <<bpm, audioReady, isPlaying, currentPlayStep, currentPlayBlock, nextNoteTime,
                   clockVars, trigLog, auxVars>>
    /\ SchedUnchanged

NextSched ==
    \/ StartPlayback
    \/ StopPlayback
    \/ WorkerOnMessage
    \/ TimerFires
    \/ TickDelivered
    \/ ClockAdvances
    \/ SetBpm
    \/ RenderLoop

SpecSched == Init /\ [][NextSched]_vars

\* C2: with a fixed BPM any two consecutively dispatched steps are scheduled
\* exactly one step duration (60/BPM/4) apart, whenever the ticks that
\* dispatched them were delivered (late, early, in a burst, twice at one time).
C2_StepGap ==
    \A i \in 1..(Len(trigLog) - 1) :
        trigLog[i].bpm = trigLog[i + 1].bpm =>
            trigLog[i + 1].time - trigLog[i].time = SecPerStep(trigLog[i].bpm)

\* two steps dispatched by different ticks, the second one by a tick so late
\* that the step's time had passed
C2_Witness ==
    \E i \in 1..(Len(trigLog) - 1) :
        /\ trigLog[i].bpm = trigLog[i + 1].bpm
        /\ trigLog[i].at < trigLog[i + 1].at
        /\ trigLog[i + 1].time < trigLog[i + 1].at
        /\ trigLog[i + 1].time - trigLog[i].time = SecPerStep(DefaultBpm)

\* C10: after stopPlayback no step is dispatched until the next
\* startPlayback, also when a tick posted before the worker handled the stop
\* message reaches the engine after the stop.
C10_NoDispatchAfterStop ==
    \A i \in 1..Len(trigLog) : trigLog[i].playing

(***************************************************************************)
(* MIDI export.  A file is its sequence of bytes; an event is a record     *)
(* [t, type, note, vel].                                                   *)
(***************************************************************************)
StepTicks == ticksPerBeat \div 4

Reverse(a) == [i \in 1..Len(a) |-> a[Len(a) + 1 - i]]

RECURSIVE Flatten(_)
Flatten(ss) == IF ss = <<>> THEN <<>> ELSE Head(ss) \o Flatten(Tail(ss))

\* toVLQ(val): the low seven bits first, the higher groups with the
\* continuation bit, then reversed
RECURSIVE VLQGroups(_, _)
VLQGroups(val, buffer) ==
    IF val = 0 THEN buffer ELSE VLQGroups(val \div 128, Append(buffer, (val % 128) + 128))

\* the groups of seven bits without buffer.reverse(): least significant first
toVLQLittleEndian(val) == VLQGroups(val \div 128, <<val % 128>>)

toVLQ(val) == Reverse(VLQGroups(val \div 128, <<val % 128>>))

\* Math.round(60000000 / bpm) as three bytes
bpmToTempoBytes(b) ==
    LET microSecs == (2 * 60000000 + b) \div (2 * b)
    IN  <<(microSecs \div 65536) % 256, (microSecs \div 256) % 256, microSecs % 256>>

\* the pitch table of getMidiNote: C is 0, ..., B is 11; any other name has no entry
midiMap(note) == IF noteMap(note) = 0 THEN NaN ELSE noteMap(note) - 1

getMidiNote(note, octave) ==
    IF IsNaN(midiMap(note)) \/ IsNaN(octave) THEN NaN ELSE (octave + 1) * 12 + midiMap(note)

DrumNote(chId) ==
    IF chId > 3 THEN 48 + chId
    ELSE IF chId = 3 THEN 46
    ELSE IF chId = 2 THEN 42
    ELSE IF chId = 1 THEN 38
    ELSE 36

MTrackEnd == <<0, 255, 47, 0>>

\* events.sort((a, b) => a.t - b.t): a stable sort by time
RECURSIVE InsertByTime(_, _)
InsertByTime(sorted, e) ==
    IF sorted = <<>> THEN <<e>>
    ELSE IF sorted[Len(sorted)].t <= e.t THEN Append(sorted, e)
    ELSE Append(InsertByTime(SubSeq(sorted, 1, Len(sorted) - 1), e), sorted[Len(sorted)])

RECURSIVE SortByTime(_)
SortByTime(events) ==
    IF events = <<>> THEN <<>>
    ELSE InsertByTime(SortByTime(SubSeq(events, 1, Len(events) - 1)), events[Len(events)])

RECURSIVE EventBytes(_, _)
EventBytes(events, lastTime) ==
    IF events = <<>> THEN <<>>
    ELSE LET e == Head(events)
         IN  toVLQ(e.t - lastTime) \o <<e.type, e.note, e.vel>> \o EventBytes(Tail(events), e.t)

compileTrack(events) == EventBytes(SortByTime(events), 0) \o MTrackEnd

\* the drum events of the pattern: per block, per step, per hit a Note-On
\* and a Note-Off 60 ticks later
DrumEvents(bs) ==
    Flatten([g \in 1..(Len(bs) * totalSteps) |->
        LET stepDrums == bs[((g - 1) \div totalSteps) + 1].drums[((g - 1) % totalSteps) + 1]
            time == (g - 1) * StepTicks
        IN  Flatten([h \in 1..Len(stepDrums) |->
                <<[t |-> time, type |-> 153, note |-> DrumNote(stepDrums[h]), vel |-> 100],
                  [t |-> time + 60, type |-> 137, note |-> DrumNote(stepDrums[h]), vel |-> 0]>>])])

\* the events of one bass track on MIDI channel midiCh
BassEvents(bs, key, midiCh) ==
    Flatten([g \in 1..(Len(bs) * totalSteps) |->
        LET b == bs[((g - 1) \div totalSteps) + 1]
            noteData == IF key \in Keys(b) THEN b.tracks[key][((g - 1) % totalSteps) + 1] ELSE Null
            time == (g - 1) * StepTicks
            midiNote == getMidiNote(noteData.note, noteData.octave)
        IN  IF noteData = Null THEN <<>>
            ELSE <<[t |-> time, type |-> 144 + midiCh, note |-> midiNote,
                    vel |-> IF noteData.accent THEN 127 ELSE 90],
                   [t |-> time + (StepTicks - 10), type |-> 128 + midiCh, note |-> midiNote,
                    vel |-> 0]>>])

allTrackKeys(bs) == KeysInOrder(AllKeys(bs))

\* ch = chCounter++; if (ch === 9) chCounter++; midiCh = ch
RECURSIVE MidiChannels(_, _)
MidiChannels(n, chCounter) ==
    IF n = 0 THEN <<>>
    ELSE LET ch == chCounter
         IN  <<ch>> \o MidiChannels(n - 1, IF ch = DrumMidiChannel THEN chCounter + 2
                                                                 ELSE chCounter + 1)

MidiTracks(bs, b) ==
    LET track0 == <<0, 255, 81, 3>> \o bpmToTempoBytes(b) \o MTrackEnd
        drumEvents == DrumEvents(bs)
        keys == allTrackKeys(bs)
        chs == MidiChannels(Len(keys), 0)
    IN  <<track0>>
        \o (IF Len(drumEvents) > 0 THEN <<compileTrack(drumEvents)>> ELSE <<>>)
        \o [i \in 1..Len(keys) |-> compileTrack(BassEvents(bs, keys[i], chs[i]))]

Int32Bytes(n) == <<(n \div 16777216) % 256, (n \div 65536) % 256, (n \div 256) % 256, n % 256>>

buildMidiFile(tracks) ==
    <<77, 84, 104, 100, 0, 0, 0, 6, 0, 1,
      (Len(tracks) \div 256) % 256, Len(tracks) % 256,
      (ticksPerBeat \div 256) % 256, ticksPerBeat % 256>>
    \o Flatten([i \in 1..Len(tracks) |->
                  <<77, 84, 114, 107>> \o Int32Bytes(Len(tracks[i])) \o tracks[i]])

\* exportMidi(blocks, bpm); null (no file) is the empty sequence
exportMidi(bs, b) == IF Len(bs) = 0 THEN <<>> ELSE buildMidiFile(MidiTracks(bs, b))

(***************************************************************************)
(* MIDI import: parseMidi, then the handler of the file input.             *)
(***************************************************************************)
NoByte == 0 - 1                       \* data[p] past the end: undefined

Byte(data, p) == IF p >= 0 /\ p < Len(data) THEN data[p + 1] ELSE NoByte

\* obj[k] = v
Put(f, k, v) == [x \in DOMAIN f \cup {k} |-> IF x = k THEN v ELSE f[x]]

\* the do-while of a delta time: it stops at the end of the track
RECURSIVE ReadDelta(_, _, _, _)
ReadDelta(data, p, end, dt) ==
    IF p >= end THEN [p |-> p, val |-> dt]
    ELSE LET b == Byte(data, p)
             dt2 == dt * 128 + (b % 128)
         IN  IF b >= 128 THEN ReadDelta(data, p + 1, end, dt2) ELSE [p |-> p + 1, val |-> dt2]

\* the do-while of a meta event's length
RECURSIVE ReadLength(_, _, _)
ReadLength(data, p, len) ==
    LET bb == Byte(data, p)
        len2 == len * 128 + (bb % 128)
    IN  IF bb >= 128 THEN ReadLength(data, p + 1, len2) ELSE [p |-> p + 1, val |-> len2]

\* a reverse map that takes the open hat (46) for percussion
DrumIdOfNoteOpenHat(note) ==
    IF note = 38 \/ note = 40 THEN 1
    ELSE IF note = 42 \/ note = 44 THEN 2
    ELSE IF note >= 46 THEN 3
    ELSE 0

\* the internal drum id of a General MIDI note
DrumIdOfNote(note) ==
    IF note = 38 \/ note = 40 THEN 1
    ELSE IF note = 42 \/ note = 44 \/ note = 46 THEN 2
    ELSE IF note >= 47 THEN 3
    ELSE 0

\* Math.round(absTime / (ticksPerBeat / 4))
StepOfTick(absTime) == (2 * absTime + StepTicks) \div (2 * StepTicks)

\* a Note-On with its two data bytes at p
NoteOn(data, st, p, status, absTime) ==
    LET ch == status % 16
        note == Byte(data, p)
        vel == Byte(data, p + 1)
        step == StepOfTick(absTime)
        hits == IF step \in DOMAIN st.drums THEN st.drums[step] ELSE <<>>
        internalId == DrumIdOfNote(note)
        moved == [st EXCEPT !.p = p + 2, !.absTime = absTime]
    IN  IF vel <= 0 THEN moved
        ELSE IF ch = DrumMidiChannel
        THEN [moved EXCEPT !.drums = Put(st.drums, step,
                                         IF SeqIncludes(hits, internalId) THEN hits
                                         ELSE Append(hits, internalId))]
        ELSE [moved EXCEPT !.bass = Put(st.bass, step, [note |-> note, vel |-> vel])]

\* the events of one track chunk, up to its end
RECURSIVE ParseEvents(_, _, _)
ParseEvents(data, st, end) ==
    IF st.p >= end THEN st
    ELSE LET d == ReadDelta(data, st.p, end, 0)
             absTime == st.absTime + d.val
             raw == Byte(data, d.p)
             running == raw < 128
             status == IF running THEN st.lastStatus ELSE raw
             p == IF running THEN d.p - 1 ELSE d.p + 1
             at == [st EXCEPT !.absTime = absTime, !.lastStatus = status]
             kind == status \div 16
         IN  IF d.p >= end THEN [st EXCEPT !.p = d.p, !.absTime = absTime]
             ELSE IF kind = 9 THEN ParseEvents(data, NoteOn(data, at, p, status, absTime), end)
             ELSE IF kind = 8 \/ kind = 11 \/ kind = 14
             THEN ParseEvents(data, [at EXCEPT !.p = p + 2], end)
             ELSE IF kind = 12 THEN ParseEvents(data, [at EXCEPT !.p = p + 1], end)
             ELSE IF status = 255
             THEN LET len == ReadLength(data, p + 1, 0)
                  IN  ParseEvents(data, [at EXCEPT !.p = len.p + len.val], end)
             ELSE ParseEvents(data, [at EXCEPT !.p = p], end)

\* the track chunks from p on
RECURSIVE ParseTracks(_, _)
ParseTracks(data, st) ==
    IF st.p >= Len(data) THEN st
    ELSE IF <<Byte(data, st.p), Byte(data, st.p + 1), Byte(data, st.p + 2), Byte(data, st.p + 3)>>
            # <<77, 84, 114, 107>> THEN st
    ELSE LET p == st.p + 4
             len == Byte(data, p) * 16777216 + Byte(data, p + 1) * 65536
                    + Byte(data, p + 2) * 256 + Byte(data, p + 3)
             end == p + 4 + len
             done == ParseEvents(data, [st EXCEPT !.p = p + 4, !.absTime = 0, !.lastStatus = 0], end)
         IN  ParseTracks(data, [done EXCEPT !.p = end])

\* parseMidi(arrayBuffer): null, or the steps that hold drum hits and bass notes
parseMidi(data) ==
    IF <<Byte(data, 0), Byte(data, 1), Byte(data, 2), Byte(data, 3)>> # <<77, 84, 104, 100>>
    THEN [ok |-> FALSE, drums |-> <<>>, bass |-> <<>>]
    ELSE LET st == ParseTracks(data, [p |-> 14, absTime |-> 0, lastStatus |-> 0,
                                      drums |-> <<>>, bass |-> <<>>])
         IN  [ok |-> TRUE, drums |-> st.drums, bass |-> st.bass]

SetMax(S) == IF S = {} THEN 0 ELSE CHOOSE m \in S : \A x \in S : x <= m

\* the bass notes of the file, written to the target track step by step
RECURSIVE FillBass(_, _, _, _)
FillBass(bs, bass, steps, targetId) ==
    IF steps = {} THEN bs
    ELSE LET step == CHOOSE x \in steps : \A y \in steps : x <= y
             noteData == bass[step]
             blockIdx == step \div totalSteps
             stepIdx == step % totalSteps
             withTrack == IF targetId \in Keys(bs[blockIdx + 1]) THEN bs
                          ELSE registerTrack(bs, targetId)
             set == [withTrack EXCEPT ![blockIdx + 1].tracks[targetId][stepIdx + 1] =
                        [note |-> noteMapRev[(noteData.note % 12) + 2],
                         octave |-> (noteData.note \div 12) - 1,
                         slide |-> FALSE,
                         accent |-> noteData.vel > 100]]
         IN  FillBass(IF blockIdx < Len(bs) THEN set ELSE bs, bass, steps \ {step}, targetId)

FillDrums(bs, drums) ==
    [b \in 1..Len(bs) |->
        [bs[b] EXCEPT !.drums =
            [s \in 1..totalSteps |->
                LET step == (b - 1) * totalSteps + (s - 1)
                IN  IF step \in DOMAIN drums THEN drums[step] ELSE bs[b].drums[s]]]]

\* the blocks the file input's handler builds from what parseMidi found
ImportedBlocks(data, view) ==
    LET maxStep == SetMax(DOMAIN data.bass \cup DOMAIN data.drums)
        blocksNeeded == CeilDiv(maxStep + 1, totalSteps)
        targetId == IF view = DrumView THEN BassId(1) ELSE view
    IN  FillDrums(FillBass(AddBlocks(<<>>, blocksNeeded), data.bass, DOMAIN data.bass, targetId),
                  data.drums)

MidiUnchanged ==
    UNCHANGED <<clipboard, bassSynths, masterVolume, channels, bpm, selectedStep, activeView,
                currentOctave, pendingColorSwap, audioReady, playVars, clockVars, csvArea, trigLog, auxVars>>

\* btn-export-midi: the file downloaded, when exportMidi gives one
BtnExportMidi ==
    /\ midiFile' = IF exportMidi(blocks, bpm) # <<>> THEN exportMidi(blocks, bpm) ELSE midiFile
    /\ last' = Op("exportMidi", 0, <<>>, TRUE, NoPre)
    /\ UNCHANGED <<blocks, editingBlock>>
    /\ MidiUnchanged

\* file-upload-midi onload, for the file downloaded last
MidiFileLoaded ==
    /\ midiFile # <<>>
    /\ LET data == parseMidi(midiFile)
       IN  /\ blocks' = IF data.ok THEN ImportedBlocks(data, activeView) ELSE blocks
           /\ editingBlock' = IF data.ok THEN 0 ELSE editingBlock
           /\ last' = Op("importMidi", 0, <<>>, data.ok, Session)
    /\ UNCHANGED midiFile
    /\ MidiUnchanged

(***************************************************************************)
(* MIDI codec specification: a session with a bass note of every pitch     *)
(* class and editor octave (1..6), alone or with other notes and drum      *)
(* hits, is exported and the file is loaded again.                         *)
(***************************************************************************)
\* <<number of bass synths, what else the pattern holds>>
\*   0: nothing else; 1: a note on bass-1 at another step, and drum hits at
\*   the step of the note; 2: a note on bass-1 at the same step
MidiScenarios == {<<1, 0>>, <<2, 1>>, <<2, 2>>, <<DrumMidiChannel + 1, 0>>}

MidiSession(k, o, acc, nb, sc) ==
    LET ids == [i \in 1..sc[1] |-> BassId(i)]
        own == PlaceAt(BlocksFor(nb, ids), nb, ids[Len(ids)], totalSteps - 1,
                       Note(noteMapRev[k + 2], o, FALSE, acc))
        bs == CASE sc[2] = 0 -> own
                [] sc[2] = 1 -> HitsAt(PlaceAt(own, 1, ids[1], 0, Note("C", 3, TRUE, ~acc)),
                                       nb, totalSteps - 1, <<0, 2>>)
                [] sc[2] = 2 -> PlaceAt(own, nb, ids[1], totalSteps - 1, Note("D", 2, FALSE, FALSE))
    IN  [bpm |-> DefaultBpm, blocks |-> bs,
         bassSynths |-> [i \in 1..Len(ids) |-> NewBassSynth(ids[i])],
         masterVolume |-> DefaultMasterVolume, channels |-> DefaultChannels]

InitMidi ==
    /\ \E k \in 0..11 : \E o \in 1..6 : \E acc \in BOOLEAN :
       \E nb \in 1..MaxBlocks : \E sc \in MidiScenarios :
          LET S == MidiSession(k, o, acc, nb, sc)
          IN  /\ SessionIs(S)
              /\ activeView \in {BassId(1), S.bassSynths[Len(S.bassSynths)].id, DrumView}
              /\ last = Op("init", 0, <<>>, TRUE, NoPre)
    /\ audioReady = TRUE
    /\ InitRest

NextMidi == BtnExportMidi \/ MidiFileLoaded

SpecMidi == InitMidi /\ [][NextMidi]_vars

\* C6: for every pitch class (table index k in 0..11) and editor octave o,
\* exportMidi emits the bass Note-On with note number (o+1)*12+k at tick
\* (block*16+step)*120, velocity 127 with accent and 90 without, and loading
\* the file gives back the same pitch class, octave and accent at the same
\* block and step.
MidiTarget == IF activeView = DrumView THEN BassId(1) ELSE activeView

\* the Note-On events of the bass tracks of the file exported from bs
BassNoteOns(bs) ==
    LET keys == allTrackKeys(bs)
        chs == MidiChannels(Len(keys), 0)
        all == Flatten([i \in 1..Len(keys) |-> BassEvents(bs, keys[i], chs[i])])
    IN  {[t |-> all[i].t, note |-> all[i].note, vel |-> all[i].vel] :
            i \in {j \in 1..Len(all) : all[j].type \div 16 = 9}}

NoteComesBack(n, b, s) ==
    /\ b <= Len(blocks)
    /\ MidiTarget \in Keys(blocks[b])
    /\ blocks[b].tracks[MidiTarget][s] # Null
    /\ blocks[b].tracks[MidiTarget][s].note = n.note
    /\ blocks[b].tracks[MidiTarget][s].octave = n.octave
    /\ blocks[b].tracks[MidiTarget][s].accent = n.accent

C6_MidiNoteMapping ==
    (last.op = "importMidi" /\ midiFile = exportMidi(last.pre.blocks, last.pre.bpm)) =>
        \A b \in 1..Len(last.pre.blocks) : \A id \in Keys(last.pre.blocks[b]) :
            \A s \in 1..totalSteps :
                LET n == last.pre.blocks[b].tracks[id][s]
                IN  n # Null =>
                        /\ [t |-> ((b - 1) * 16 + (s - 1)) * 120,
                            note |-> (n.octave + 1) * 12 + (noteMap(n.note) - 1),
                            vel |-> IF n.accent THEN 127 ELSE 90] \in BassNoteOns(last.pre.blocks)
                        /\ NoteComesBack(n, b, s)

(***************************************************************************)
(* TimeMatrix with object identity.  A note slot holds null or a note      *)
(* object, a drum step holds an array; the editor changes both in place    *)
(* (toggleNoteMod, push/splice of a hit, d.length = 0).  The variable       *)
(* alias holds the pairs of slots that hold one and the same object; a     *)
(* slot is <<block, track, step>> with block 0 for the clipboard and       *)
(* 1..n for blocks[0..n-1], track 0 for the drums array and n for the      *)
(* track 'bass-n', step 1..totalSteps.  A new object ({...n}, [...d], an   *)
(* object literal) shares with nothing.  st is the record of blocks,       *)
(* clipboard and alias, with the value returned by the call in st.ret.     *)
(***************************************************************************)
Undefined == [undefined |-> TRUE]         \* an array entry that reads undefined

Store == [blocks |-> blocks, clipboard |-> clipboard, alias |-> alias, ret |-> "undefined"]

HasBlock(bs, idx) == idx >= 0 /\ idx < Len(bs) /\ bs[idx + 1] # Undefined   \* !!this.blocks[idx]

\* a.splice(start, 0, x)
SpliceIn(a, start, x) ==
    LET at == IF start < 0 THEN Max(Len(a) + start, 0) ELSE Min(start, Len(a))
    IN  SubSeq(a, 1, at) \o <<x>> \o SubSeq(a, at + 1, Len(a))

\* the objects of a block: every drums array and every note that is not null
ObjectSlots(b, bi) ==
    {<<bi, 0, s>> : s \in 1..Len(b.drums)}
    \cup UNION {{<<bi, KeyNum(k), s>> : s \in {x \in 1..Len(b.tracks[k]) : b.tracks[k][x] # Null}} :
                k \in Keys(b)}

Sharers(al, p) == UNION {pr \ {p} : pr \in {x \in al : p \in x}}

Renumber(al, F(_)) == {{<<F(p[1]), p[2], p[3]>> : p \in pr} : pr \in al}
WithoutBlock(al, bi) == {pr \in al : \A p \in pr : p[1] # bi}
WithoutSlot(al, q) == {pr \in al : q \notin pr}
AfterInsert(al, j) == Renumber(al, LAMBDA b : IF b >= j THEN b + 1 ELSE b)
AfterRemove(al, j) == Renumber(WithoutBlock(al, j), LAMBDA b : IF b > j THEN b - 1 ELSE b)
AfterSwap(al, i, j) == Renumber(al, LAMBDA b : IF b = i THEN j ELSE IF b = j THEN i ELSE b)

\* block dst holds the very objects of block src
SharedWith(al, b, src, dst) ==
    al \cup UNION {{{<<dst, p[2], p[3]>>, q} : q \in {p} \cup Sharers(al, p)} :
                   p \in ObjectSlots(b, src)}

SlotValue(st, p) ==
    LET b == IF p[1] = 0 THEN st.clipboard ELSE st.blocks[p[1]]
    IN  IF p[2] = 0 THEN b.drums[p[3]] ELSE b.tracks[BassId(p[2])][p[3]]

SetInBlock(b, p, v) ==
    IF p[2] = 0 THEN [b EXCEPT !.drums[p[3]] = v]
    ELSE [b EXCEPT !.tracks[BassId(p[2])][p[3]] = v]

SetSlot(st, p, v) ==
    IF p[1] = 0 THEN [st EXCEPT !.clipboard = SetInBlock(@, p, v)]
    ELSE [st EXCEPT !.blocks[p[1]] = SetInBlock(@, p, v)]

\* the object in slot p changes in place: every slot that holds it shows v
RECURSIVE SetSlots(_, _, _)
SetSlots(st, P, v) ==
    IF P = {} THEN st
    ELSE LET p == CHOOSE x \in P : TRUE IN SetSlots(SetSlot(st, p, v), P \ {p}, v)

ChangeInPlace(st, p, v) == SetSlots(st, {p} \cup Sharers(st.alias, p), v)

\* a copy of a block as the code builds it: new note objects, new drum arrays
CloneBlock(org) ==
    [tracks |-> [k \in Keys(org) |-> [s \in 1..Len(org.tracks[k]) |-> org.tracks[k][s]]],
     drums |-> [s \in 1..Len(org.drums) |-> org.drums[s]]]

\* a duplicate whose slots hold the note objects and the drum arrays of the original
duplicateBlockShallow(st, idx) ==
    IF ~HasBlock(st.blocks, idx) THEN st
    ELSE [st EXCEPT !.blocks = SpliceIn(st.blocks, idx + 1, st.blocks[idx + 1]),
                    !.alias = SharedWith(AfterInsert(st.alias, idx + 2), st.blocks[idx + 1],
                                         idx + 1, idx + 2)]

duplicateBlock(st, idx) ==
    IF ~HasBlock(st.blocks, idx) THEN st
    ELSE [st EXCEPT !.blocks = SpliceIn(st.blocks, idx + 1, CloneBlock(st.blocks[idx + 1])),
                    !.alias = AfterInsert(st.alias, idx + 2)]

copyToClipboard(st, idx) ==
    IF ~HasBlock(st.blocks, idx) THEN [st EXCEPT !.ret = "false"]
    ELSE [st EXCEPT !.clipboard = CloneBlock(st.blocks[idx + 1]),
                    !.alias = WithoutBlock(st.alias, 0),
                    !.ret = "true"]

\* where blocks.splice(idx + 1, 0, x) puts x, as a position 1..n+1
PastePosition(bs, idx) ==
    (IF idx + 1 < 0 THEN Max(Len(bs) + idx + 1, 0) ELSE Min(idx + 1, Len(bs))) + 1

\* a paste that inserts the objects of the clipboard themselves
pasteFromClipboardShallow(st, idx) ==
    IF st.clipboard = <<>> THEN [st EXCEPT !.ret = "false"]
    ELSE [st EXCEPT !.blocks = SpliceIn(st.blocks, idx + 1, st.clipboard),
                    !.alias = SharedWith(AfterInsert(st.alias, PastePosition(st.blocks, idx)),
                                         st.clipboard, 0, PastePosition(st.blocks, idx)),
                    !.ret = "true"]

pasteFromClipboard(st, idx) ==
    IF st.clipboard = <<>> THEN [st EXCEPT !.ret = "false"]
    ELSE [st EXCEPT !.blocks = SpliceIn(st.blocks, idx + 1, CloneBlock(st.clipboard)),
                    !.alias = AfterInsert(st.alias, PastePosition(st.blocks, idx)),
                    !.ret = "true"]

\* a move that writes the block to its neighbour's place and does not put
\* the neighbour back
moveBlockOverwrite(st, idx, dir) ==
    LET t == idx + dir
        n == Len(st.blocks)
    IN  IF t < 0 \/ t >= n \/ idx < 0 \/ idx >= n THEN [st EXCEPT !.ret = "false"]
        ELSE [st EXCEPT !.blocks = [st.blocks EXCEPT ![t + 1] = st.blocks[idx + 1]],
                        !.alias = AfterSwap(st.alias, idx + 1, t + 1),
                        !.ret = "true"]

\* moveBlock(idx, dir).  Only the target t = idx + dir is range-checked: with
\* idx itself out of range blocks[t] becomes undefined and the block moves to
\* blocks[idx], past the end of the list (the entries in between are empty)
\* or, for a negative idx, out of the list
moveBlock(st, idx, dir) ==
    LET t == idx + dir
        n == Len(st.blocks)
    IN  IF t < 0 \/ t >= n THEN [st EXCEPT !.ret = "false"]
        ELSE IF idx >= 0 /\ idx < n
        THEN [st EXCEPT !.blocks = [st.blocks EXCEPT ![t + 1] = st.blocks[idx + 1],
                                                     ![idx + 1] = st.blocks[t + 1]],
                        !.alias = AfterSwap(st.alias, idx + 1, t + 1),
                        !.ret = "true"]
        ELSE IF idx >= n
        THEN [st EXCEPT !.blocks = [i \in 1..(idx + 1) |->
                                       IF i = idx + 1 THEN st.blocks[t + 1]
                                       ELSE IF i = t + 1 \/ i > n THEN Undefined
                                       ELSE st.blocks[i]],
                        !.alias = AfterSwap(st.alias, idx + 1, t + 1),
                        !.ret = "true"]
        ELSE [st EXCEPT !.blocks = [st.blocks EXCEPT ![t + 1] = Undefined],
                        !.alias = WithoutBlock(st.alias, t + 1),
                        !.ret = "true"]

\* clearBlock on the store: fill(null) empties the note slots, d.length = 0
\* empties each drum array in place
RECURSIVE EmptyArrays(_, _)
EmptyArrays(st, P) ==
    IF P = {} THEN st
    ELSE LET p == CHOOSE x \in P : TRUE IN EmptyArrays(ChangeInPlace(st, p, <<>>), P \ {p})

clearBlockIn(st, idx) ==
    IF ~HasBlock(st.blocks, idx) THEN st
    ELSE LET drumSlots == {<<idx + 1, 0, s>> : s \in 1..Len(st.blocks[idx + 1].drums)}
             shared == {p \in drumSlots : Sharers(st.alias, p) # {}}
             cleared == [st EXCEPT !.blocks = clearBlock(st.blocks, idx),
                                   !.alias = {pr \in st.alias :
                                                 \A p \in pr : p[1] # idx + 1 \/ p[2] = 0}]
         IN  EmptyArrays(cleared, shared)

removeBlockIn(st, idx) ==
    IF Len(st.blocks) <= 1 THEN clearBlockIn(st, 0)
    ELSE [st EXCEPT !.blocks = removeBlock(st.blocks, idx),
                    !.alias = IF removeBlock(st.blocks, idx) = st.blocks THEN st.alias
                              ELSE AfterRemove(st.alias,
                                               (IF idx < 0 THEN Max(Len(st.blocks) + idx, 0)
                                                ELSE idx) + 1)]

addBlockIn(st) == [st EXCEPT !.blocks = addBlock(st.blocks)]
registerTrackIn(st, id) == [st EXCEPT !.blocks = registerTrack(st.blocks, id)]
removeTrackIn(st, id) ==
    [st EXCEPT !.blocks = removeTrack(st.blocks, id),
               !.alias = {pr \in st.alias : \A p \in pr : p[1] = 0 \/ p[2] # KeyNum(id)}]

\* placeNote(note) on block b, track sId: the track is registered when the
\* block lacks it, and the slot gets a new note object
placeNoteIn(st, b, sId, step, note, octave) ==
    LET reg == IF sId \in Keys(st.blocks[b + 1]) THEN st ELSE registerTrackIn(st, sId)
        prev == reg.blocks[b + 1].tracks[sId][step + 1]
        p == <<b + 1, KeyNum(sId), step + 1>>
    IN  [SetSlot(reg, p, [note |-> note, octave |-> octave,
                          slide |-> IF prev # Null THEN prev.slide ELSE FALSE,
                          accent |-> IF prev # Null THEN prev.accent ELSE FALSE])
            EXCEPT !.alias = WithoutSlot(reg.alias, p)]

\* btn-delete-note: the slot becomes null
deleteNoteIn(st, b, sId, step) ==
    LET p == <<b + 1, KeyNum(sId), step + 1>>
    IN  [SetSlot(st, p, Null) EXCEPT !.alias = WithoutSlot(st.alias, p)]

\* toggleNoteMod(prop): note[prop] = !note[prop] on the object in the slot
toggleNoteModIn(st, b, sId, step, prop) ==
    LET p == <<b + 1, KeyNum(sId), step + 1>>
        note == SlotValue(st, p)
    IN  IF note = Null THEN st
        ELSE ChangeInPlace(st, p, IF prop = "slide" THEN [note EXCEPT !.slide = ~@]
                                  ELSE [note EXCEPT !.accent = ~@])

\* a.splice(a.indexOf(x), 1) for an x that a holds
RECURSIVE WithoutFirst(_, _)
WithoutFirst(a, x) ==
    IF a = <<>> THEN <<>>
    ELSE IF a[1] = x THEN Tail(a) ELSE <<a[1]>> \o WithoutFirst(Tail(a), x)

\* the click on a drum row: cur.splice(cur.indexOf(id), 1) or cur.push(id),
\* on the array of the step
toggleDrumIn(st, b, step, chId) ==
    LET p == <<b + 1, 0, step + 1>>
        cur == SlotValue(st, p)
    IN  ChangeInPlace(st, p, IF SeqIncludes(cur, chId) THEN WithoutFirst(cur, chId)
                             ELSE Append(cur, chId))

(***************************************************************************)
(* Clipboard specification: the calls of TimeMatrix with any index from    *)
(* one before the first block to one past the last, and the editor         *)
(* gestures on the selected step of any block.                             *)
(***************************************************************************)
MaxClipBlocks == 2    \* addBlock, duplicate and paste stop growing the block list here
MaxClipMarks == 3     \* notes and drum hits in the blocks and the clipboard together
ClipTrackIds == {BassId(1), BassId(2)}

NoHoles(bs) == \A i \in 1..Len(bs) : bs[i] # Undefined

StoreBecomes(st) ==
    /\ blocks' = st.blocks
    /\ clipboard' = st.clipboard
    /\ alias' = st.alias

ClipUnchanged ==
    UNCHANGED <<bassSynths, masterVolume, channels, bpm, editVars, pendingColorSwap, audioReady,
                playVars, clockVars, ioVars, trigLog, clockWorker, offlineLog,
                toggled>>

ClipMarks == Marks(blocks) + (IF clipboard = NoClip THEN 0 ELSE MarksIn(clipboard))

ClipAddBlock ==
    /\ NoHoles(blocks) /\ Len(blocks) < MaxClipBlocks
    /\ StoreBecomes(addBlockIn(Store))
    /\ last' = Op("addBlock", 0, <<>>, "undefined", NoPre)
    /\ ClipUnchanged

ClipRemoveBlock ==
    \E idx \in 0..(Len(blocks) - 1) :
        /\ NoHoles(blocks)
        /\ StoreBecomes(removeBlockIn(Store, idx))
        /\ last' = Op("removeBlock", 0, <<>>, "undefined", NoPre)
        /\ ClipUnchanged

ClipClearBlock ==
    \E idx \in (0 - 1)..Len(blocks) :
        /\ NoHoles(blocks)
        /\ StoreBecomes(clearBlockIn(Store, idx))
        /\ last' = Op("clearBlock", 0, <<>>, "undefined", NoPre)
        /\ ClipUnchanged

ClipDuplicateBlock ==
    \E idx \in (0 - 1)..Len(blocks) :
        /\ NoHoles(blocks) /\ Len(blocks) < MaxClipBlocks
        /\ ClipMarks + (IF HasBlock(blocks, idx) THEN MarksIn(blocks[idx + 1]) ELSE 0) <= MaxClipMarks
        /\ StoreBecomes(duplicateBlock(Store, idx))
        /\ last' = Op("duplicateBlock", idx, <<>>, duplicateBlock(Store, idx).ret, NoPre)
        /\ ClipUnchanged

ClipCopy ==
    \E idx \in (0 - 1)..Len(blocks) :
        /\ NoHoles(blocks)
        /\ Marks(blocks) + (IF HasBlock(blocks, idx) THEN MarksIn(blocks[idx + 1]) ELSE 0) <= MaxClipMarks
        /\ StoreBecomes(copyToClipboard(Store, idx))
        /\ last' = Op("copyToClipboard", idx, <<>>, copyToClipboard(Store, idx).ret, NoPre)
        /\ ClipUnchanged

ClipPaste ==
    \E idx \in (0 - 1)..Len(blocks) :
        /\ NoHoles(blocks) /\ Len(blocks) < MaxClipBlocks
        /\ ClipMarks + (IF clipboard = NoClip THEN 0 ELSE MarksIn(clipboard)) <= MaxClipMarks
        /\ StoreBecomes(pasteFromClipboard(Store, idx))
        /\ last' = Op("pasteFromClipboard", idx, <<>>, pasteFromClipboard(Store, idx).ret, NoPre)
        /\ ClipUnchanged

ClipMoveBlock ==
    \E idx \in (0 - 1)..Len(blocks) : \E dir \in {0 - 1, 1} :
        /\ NoHoles(blocks)
        /\ StoreBecomes(moveBlock(Store, idx, dir))
        /\ last' = Op("moveBlock", idx, <<>>, moveBlock(Store, idx, dir).ret, NoPre)
        /\ ClipUnchanged

ClipRegisterTrack ==
    \E id \in ClipTrackIds :
        /\ NoHoles(blocks)
        /\ StoreBecomes(registerTrackIn(Store, id))
        /\ last' = Op("registerTrack", 0, <<>>, "undefined", NoPre)
        /\ ClipUnchanged

ClipRemoveTrack ==
    \E id \in ClipTrackIds :
        /\ NoHoles(blocks)
        /\ StoreBecomes(removeTrackIn(Store, id))
        /\ last' = Op("removeTrack", 0, <<>>, "undefined", NoPre)
        /\ ClipUnchanged

ClipPlaceNote ==
    \E b \in 0..(Len(blocks) - 1) : \E sId \in SynthIds(bassSynths) :
        /\ NoHoles(blocks)
        /\ ClipMarks < MaxClipMarks
        /\ StoreBecomes(placeNoteIn(Store, b, sId, selectedStep, "C", currentOctave))
        /\ last' = Op("placeNote", 0, <<>>, "undefined", NoPre)
        /\ ClipUnchanged

ClipDeleteNote ==
    \E b \in 0..(Len(blocks) - 1) : \E sId \in ClipTrackIds :
        /\ NoHoles(blocks)
        /\ sId \in Keys(blocks[b + 1])
        /\ blocks[b + 1].tracks[sId][selectedStep + 1] # Null
        /\ StoreBecomes(deleteNoteIn(Store, b, sId, selectedStep))
        /\ last' = Op("deleteNote", 0, <<>>, "undefined", NoPre)
        /\ ClipUnchanged

ClipToggleNoteMod ==
    \E b \in 0..(Len(blocks) - 1) : \E sId \in ClipTrackIds : \E prop \in {"slide", "accent"} :
        /\ NoHoles(blocks)
        /\ sId \in Keys(blocks[b + 1])
        /\ blocks[b + 1].tracks[sId][selectedStep + 1] # Null
        /\ StoreBecomes(toggleNoteModIn(Store, b, sId, selectedStep, prop))
        /\ last' = Op("toggleNoteMod", 0, <<>>, "undefined", NoPre)
        /\ ClipUnchanged

ClipToggleDrum ==
    \E b \in 0..(Len(blocks) - 1) :
        /\ NoHoles(blocks)
        /\ blocks[b + 1].drums[selectedStep + 1] # <<>> \/ ClipMarks < MaxClipMarks
        /\ StoreBecomes(toggleDrumIn(Store, b, selectedStep, 0))
        /\ last' = Op("toggleDrum", 0, <<>>, "undefined", NoPre)
        /\ ClipUnchanged

\* the clipboard and the editor
NextClip ==
    \/ ClipCopy
    \/ ClipPaste
    \/ ClipRemoveBlock
    \/ ClipClearBlock
    \/ ClipMoveBlock
    \/ ClipPlaceNote
    \/ ClipDeleteNote
    \/ ClipToggleNoteMod
    \/ ClipToggleDrum

InitClip == Init /\ audioReady

SpecClip == InitClip /\ [][NextClip]_vars

\* duplicates and the editor
NextDup ==
    \/ ClipAddBlock
    \/ ClipDuplicateBlock
    \/ ClipRemoveBlock
    \/ ClipPlaceNote
    \/ ClipDeleteNote
    \/ ClipToggleNoteMod
    \/ ClipToggleDrum

SpecDup == InitClip /\ [][NextDup]_vars

\* the calls that take a block index, with a drum hit to tell the blocks apart
NextIndex ==
    \/ ClipAddBlock
    \/ ClipDuplicateBlock
    \/ ClipCopy
    \/ ClipPaste
    \/ ClipMoveBlock
    \/ ClipToggleDrum

SpecIndex == InitClip /\ [][NextIndex]_vars

\* the structural calls: blocks, clipboard and tracks, no content
NextTracks ==
    \/ ClipAddBlock
    \/ ClipRemoveBlock
    \/ ClipDuplicateBlock
    \/ ClipCopy
    \/ ClipPaste
    \/ ClipMoveBlock
    \/ ClipRegisterTrack
    \/ ClipRemoveTrack

SpecTracks == InitClip /\ [][NextTracks]_vars

\* C13: after any sequence of block-store calls that includes
\* copyToClipboard, pasteFromClipboard, duplicateBlock and moveBlock between
\* registerTrack and removeTrack calls, every block has the same track-key
\* set as every other block.
C13_PasteKeepsTrackKeys ==
    NoHoles(blocks) => \A b \in 1..Len(blocks) : Keys(blocks[b]) = Keys(blocks[1])

\* C18: moveBlock, duplicateBlock and pasteFromClipboard called with a block
\* index outside 0..blockCount-1 leave the block list as it was and do not
\* return success.
IndexedCalls == {"moveBlock", "duplicateBlock", "pasteFromClipboard"}

C18_InvalidIndexNoOp ==
    [][(last'.op \in IndexedCalls /\ (last'.idx < 0 \/ last'.idx >= Len(blocks)))
          => (blocks' = blocks /\ last'.ok # "true")]_vars

\* an editor gesture changes the content of one block at most
EditGestures == {"placeNote", "deleteNote", "toggleNoteMod", "toggleDrum"}

OneBlockChanged ==
    /\ Len(blocks') = Len(blocks)
    /\ \E b \in 1..Len(blocks) : \A j \in 1..Len(blocks) : j # b => blocks'[j] = blocks[j]

\* C19: duplicateBlock(i) with a valid i makes the block list one longer,
\* with a block at position i+1 that has the notes and drum hits of block i
\* and every other block where it was; no later gesture of the editor on one
\* block (placing or deleting a note, toggling slide or accent in place,
\* adding or removing a drum hit) changes another block.
C19_DuplicateIndependent ==
    [][/\ (last'.op = "duplicateBlock" /\ HasBlock(blocks, last'.idx))
            => /\ Len(blocks') = Len(blocks) + 1
               /\ \A j \in 1..Len(blocks') :
                     blocks'[j] = IF j <= last'.idx + 1 THEN blocks[j] ELSE blocks[j - 1]
       /\ last'.op \in EditGestures => OneBlockChanged]_vars

\* a block with a note that slides was duplicated
C19_Witness ==
    /\ last.op = "duplicateBlock"
    /\ last.idx = 0
    /\ Len(blocks) = 2
    /\ blocks[1] = blocks[2]
    /\ blocks[1].tracks[BassId(1)][1] # Null
    /\ blocks[1].tracks[BassId(1)][1].slide

\* C20: the clipboard keeps the content block i had at copyToClipboard(i)
\* through every later gesture of the editor, clearBlock, removeBlock and
\* moveBlock; pasteFromClipboard inserts a block with that content; a
\* gesture on a pasted block changes neither the clipboard nor another
\* block; with nothing copied pasteFromClipboard returns false and changes
\* nothing.
C20_ClipboardDetached ==
    [][/\ last'.op # "copyToClipboard" => clipboard' = clipboard
       /\ (last'.op = "copyToClipboard" /\ last'.ok = "true")
            => clipboard' = blocks[last'.idx + 1]
       /\ (last'.op = "pasteFromClipboard" /\ clipboard # NoClip)
            => /\ last'.ok = "true"
               /\ Len(blocks') = Len(blocks) + 1
               /\ blocks'[PastePosition(blocks, last'.idx)] = clipboard
               /\ \A j \in 1..Len(blocks) :
                     blocks[j] = blocks'[IF j < PastePosition(blocks, last'.idx) THEN j ELSE j + 1]
       /\ (last'.op = "pasteFromClipboard" /\ clipboard = NoClip)
            => (last'.ok = "false" /\ blocks' = blocks)
       /\ last'.op \in EditGestures => OneBlockChanged]_vars

\* the block copied was edited afterwards, and the paste gave the content of
\* the copy
C20_Witness ==
    /\ last.op = "pasteFromClipboard"
    /\ last.ok = "true"
    /\ Len(blocks) = 2
    /\ MarksIn(clipboard) > 0
    /\ blocks[2] = clipboard
    /\ blocks[1] # clipboard
    /\ MarksIn(blocks[1]) > 0

(***************************************************************************)
(* The block buttons of the track bar.                                     *)
(***************************************************************************)
UiUnchanged ==
    UNCHANGED <<bassSynths, masterVolume, channels, bpm, selectedStep, activeView, currentOctave,
                pendingColorSwap, audioReady, playVars, clockVars, ioVars, trigLog, clockWorker,
                offlineLog, toggled>>

\* btn-add-block: addBlock(), goToBlock(blocks.length - 1)
BtnAddBlock ==
    /\ Len(blocks) < MaxBlocks
    /\ StoreBecomes(addBlockIn(Store))
    /\ editingBlock' = Len(blocks)
    /\ last' = Op("addBlock", 0, <<>>, "undefined", NoPre)
    /\ UiUnchanged

\* btn-del-block, confirmed: removeBlock(editingBlock), fullRefresh()
BtnDelBlock ==
    /\ StoreBecomes(removeBlockIn(Store, editingBlock))
    /\ editingBlock' = 0
    /\ last' = Op("removeBlock", editingBlock, <<>>, "undefined", NoPre)
    /\ UiUnchanged

(***************************************************************************)
(* Playback while the block list is edited: the transport, the clock       *)
(* worker and the audio clock, with the add and delete buttons.            *)
(***************************************************************************)
NextPlayEdit ==
    \/ StartPlayback
    \/ WorkerOnMessage
    \/ TimerFires
    \/ TickDelivered
    \/ ClockAdvances
    \/ BtnAddBlock
    \/ BtnDelBlock

SpecPlayEdit == InitClip /\ [][NextPlayEdit]_vars

\* C11: whenever the scheduler dispatches a step, the playing block index is
\* an index into the block list of that moment, also after blocks were
\* removed between two ticks while a last block was playing.
C11_PlayBlockInRange ==
    \A i \in 1..Len(trigLog) :
        trigLog[i].block >= 0 /\ trigLog[i].block < trigLog[i].nblocks

\* btn-mem-copy
BtnMemCopy ==
    /\ StoreBecomes(copyToClipboard(Store, editingBlock))
    /\ last' = Op("copyToClipboard", editingBlock, <<>>, copyToClipboard(Store, editingBlock).ret,
                  NoPre)
    /\ UNCHANGED editingBlock
    /\ UiUnchanged

\* btn-mem-paste: fullRefresh() after a paste that returned true
BtnMemPaste ==
    LET r == pasteFromClipboard(Store, editingBlock)
    IN  /\ r.ret = "false" \/ Len(blocks) < MaxBlocks
        /\ StoreBecomes(r)
        /\ editingBlock' = IF r.ret = "true" THEN 0 ELSE editingBlock
        /\ last' = Op("pasteFromClipboard", editingBlock, <<>>, r.ret, NoPre)
        /\ UiUnchanged

\* btn-move-left, btn-move-right: goToBlock after a move that returned true
BtnMove ==
    \E dir \in {0 - 1, 1} :
        LET r == moveBlock(Store, editingBlock, dir)
        IN  /\ StoreBecomes(r)
            /\ editingBlock' = IF r.ret = "true" THEN editingBlock + dir ELSE editingBlock
            /\ last' = Op("moveBlock", editingBlock, <<>>, r.ret, NoPre)
            /\ UiUnchanged

(***************************************************************************)
(* The synth menu.                                                         *)
(***************************************************************************)
SynthUnchanged ==
    UNCHANGED <<clipboard, masterVolume, channels, bpm, editingBlock, selectedStep, currentOctave,
                pendingColorSwap, audioReady, playVars, clockVars, ioVars, trigLog, auxVars>>

\* addBassSynth(id): nothing for an id that has a synth; else the synth is
\* pushed and its track registered in every block
addBassSynth(S, id) ==
    IF id \in SynthIds(S.bassSynths) THEN S
    ELSE [S EXCEPT !.bassSynths = Append(@, NewBassSynth(id)),
                   !.blocks = registerTrack(@, id)]

\* removeSynth(id)
removeSynth(S, id) ==
    IF id \notin SynthIds(S.bassSynths) THEN S
    ELSE [S EXCEPT !.bassSynths = SpliceOut(@, getSynthIndex(S.bassSynths, id) - 1),
                   !.blocks = removeTrack(@, id)]

\* btn-add-synth: addBassSynth(`bass-${bassSynths.length + 1}`), and setTab
\* on the new synth when one was made
BtnAddSynth ==
    LET id == BassId(Len(bassSynths) + 1)
    IN  /\ Len(bassSynths) < MaxSynths
        /\ SessionBecomes(addBassSynth(Session, id))
        /\ activeView' = IF id \in SynthIds(bassSynths) THEN activeView ELSE id
        /\ last' = Op("addBassSynth", 0, id, id \notin SynthIds(bassSynths), NoPre)
        /\ SynthUnchanged

\* window.removeBassSynth(id), the X of a row of the synth menu: the view
\* moves to the first synth left when the synth shown was removed (setTab
\* throws when none is left)
RemoveBassSynth ==
    \E id \in SynthIds(bassSynths) :
        LET S == removeSynth(Session, id)
        IN  /\ SessionBecomes(S)
            /\ activeView' = IF activeView = id /\ S.bassSynths # <<>> THEN S.bassSynths[1].id
                             ELSE activeView
            /\ last' = Op("removeSynth", 0, id, TRUE, NoPre)
            /\ SynthUnchanged

\* a tab of the instrument bar: setTab(v)
SetTab ==
    \E v \in SynthIds(bassSynths) \cup {DrumView} :
        /\ v # activeView
        /\ activeView' = v
        /\ last' = Op("setTab", 0, v, TRUE, NoPre)
        /\ UNCHANGED <<blocks, bassSynths>>
        /\ SynthUnchanged

(***************************************************************************)
(* A session at the buttons: blocks, clipboard, synth menu, CSV modal and  *)
(* MIDI files.  The texts pasted in the CSV modal are well formed: a       *)
(* pattern of no step with the drum kit's configuration, and the exports   *)
(* of two sessions.                                                        *)
(***************************************************************************)
ZeroStepText ==
    << <<(NumStr(120) \o <<Dash>> \o NumStr(0) \o <<Dash, "1">>)>>,
       <<DrumConfigStr(DefaultMasterVolume, DefaultChannels)>> >>

SavedSessions ==
    {[InitialSession EXCEPT !.blocks = BlocksFor(1, ids),
                            !.bassSynths = [i \in 1..Len(ids) |-> NewBassSynth(ids[i])]] :
        ids \in {<<BassId(1)>>, <<BassId(1), BassId(2)>>}}

SavedTexts == {ZeroStepText} \cup {exportToCSV(S) : S \in SavedSessions}

PasteCsvText == TypeText(SavedTexts)

\* window.timeMatrix.duplicateBlock(editingBlock), the one caller-less
\* block operation, from the console
CallDuplicateBlock ==
    /\ Len(blocks) < MaxBlocks
    /\ StoreBecomes(duplicateBlock(Store, editingBlock))
    /\ last' = Op("duplicateBlock", editingBlock, <<>>, "undefined", NoPre)
    /\ UNCHANGED editingBlock
    /\ UiUnchanged

\* the block buttons, the clipboard buttons and the imports
NextSession ==
    \/ BtnAddBlock
    \/ BtnDelBlock
    \/ CallDuplicateBlock
    \/ ClipClearBlock
    \/ BtnMemCopy
    \/ BtnMemPaste
    \/ BtnMove
    \/ PasteCsvText
    \/ BtnLoadCsv
    \/ BtnExportMidi
    \/ MidiFileLoaded

SpecSession == InitClip /\ [][NextSession]_vars

\* the synth menu, the tabs, the block buttons and the imports
NextSynths ==
    \/ BtnAddSynth
    \/ RemoveBassSynth
    \/ SetTab
    \/ BtnAddBlock
    \/ BtnDelBlock
    \/ PasteCsvText
    \/ BtnLoadCsv
    \/ BtnExportMidi
    \/ MidiFileLoaded

SpecSynths == InitClip /\ [][NextSynths]_vars

\* C12: after block operations and imports that report success the session
\* has at least one block
C12_AtLeastOneBlock == Len(blocks) >= 1

\* C17: the ids of the bass synths are the track keys of every block
C17_SynthsMatchTracks ==
    \A b \in 1..Len(blocks) : Keys(blocks[b]) = SynthIds(bassSynths)

(***************************************************************************)
(* The transport in a browser that may refuse the audio context or the     *)
(* worker: at the bootstrap's init() and at the init() of a later start.   *)
(***************************************************************************)
InitTransport ==
    /\ SessionIs(InitialSession)
    /\ activeView = BassId(1)
    /\ audioReady \in BOOLEAN
    /\ clockWorker \in BOOLEAN
    /\ clockWorker => audioReady
    /\ InitRest0
    /\ last = Op("init", 0, <<>>, TRUE, InitialSession)

NextTransport ==
    \/ StartPlaybackAnywhere
    \/ StopPlayback
    \/ WorkerOnMessage
    \/ TimerFires
    \/ TickDelivered
    \/ ClockAdvances

SpecTransport == InitTransport /\ [][NextTransport]_vars

\* C16: without an audio context or without a clock worker the session is
\* not playing and no toggleTransport call has reported that it plays
C16_NoStartWithoutClock ==
    ~(audioReady /\ clockWorker) => (~isPlaying /\ toggled # "true")

(***************************************************************************)
(* renderAudio(): the offline render.  The bass synths and the drum synth  *)
(* are made anew on the offline context and take the live parameters; the  *)
(* timeline is scheduled in one synchronous loop before startRendering()   *)
(* is awaited.                                                             *)
(***************************************************************************)
exportReps == 1               \* AppState.exportReps

\* s.params = { ...liveSynth.params } on a new BassSynth(liveSynth.id)
CloneSynths(synths) ==
    [i \in 1..Len(synths) |-> [id |-> synths[i].id, params |-> synths[i].params]]

\* the last live channel whose id is id, 0 for none
RECURSIVE LastWithId(_, _, _)
LastWithId(chs, id, k) ==
    IF k = 0 THEN 0 ELSE IF chs[k].id = id THEN k ELSE LastWithId(chs, id, k - 1)

\* new DrumSynth(), then setChannelVolume(ch.id, ch.volume) and
\* setChannelVariant(ch.id, ch.variant) for every live channel
CloneChannels(chs) ==
    [i \in 1..NumChannels |->
        LET k == LastWithId(chs, i - 1, Len(chs))
        IN  IF k = 0 THEN DefaultChannels[i]
            ELSE [DefaultChannels[i] EXCEPT !.volume = Clamp100(chs[k].volume),
                                            !.variant = chs[k].variant]]

\* the volume setters reach the gain nodes of the offline context: a NaN
\* volume throws, the catch clause returns false
RenderThrows(S) ==
    \/ GainCallThrows(Clamp100(S.masterVolume), TRUE)
    \/ \E k \in 1..Len(S.channels) :
          /\ S.channels[k].id >= 0
          /\ S.channels[k].id < NumChannels
          /\ GainCallThrows(Clamp100(S.channels[k].volume), TRUE)

\* the triggers of step s of block b at offline time t
OfflineStep(S, b, s, t) ==
    LET blk == S.blocks[b + 1]
    IN  [block |-> b, step |-> s, time |-> t,
         drums |-> DrumTriggers(blk.drums[s + 1], CloneChannels(S.channels)),
         notes |-> BassTriggers(blk.tracks, s, CloneSynths(S.bassSynths))]

\* the same loop with the block counter running one ahead
renderTimelineSkewed(S, reps) ==
    LET nb == Len(S.blocks)
        n == totalSteps * nb * reps
    IN  [i \in 1..n |->
            OfflineStep(S, (((i - 1) \div totalSteps) + 1) % nb, (i - 1) % totalSteps,
                        (i - 1) * SecPerStep(S.bpm))]

\* the loops over r, b and s, t += secPerStep after every step
renderTimeline(S, reps) ==
    LET nb == Len(S.blocks)
        n == totalSteps * nb * reps
    IN  [i \in 1..n |->
            OfflineStep(S, ((i - 1) \div totalSteps) % nb, (i - 1) % totalSteps,
                        (i - 1) * SecPerStep(S.bpm))]

(***************************************************************************)
(* One pass of the pattern in real time, against the offline timeline of   *)
(* the same session.  The sessions have notes, drum hits, a silenced       *)
(* channel and a track without a synth; the transport starts on block 0    *)
(* and the audio clock is followed while it plays, in strides of 16 and of *)
(* 24 worker intervals: a tick finds several steps due and dispatches them *)
(* in one run of the scheduler's loop.                                     *)
(***************************************************************************)
MaxPassIntervals == 112   \* the audio clock of a pass runs for this many worker intervals

\* the sessions of two blocks with notes on the first and the last track
\* and hits in the first and the last block, the kick silenced (variant 0)
PassSessions ==
    {[S EXCEPT !.channels = ChannelConfig(2)] :
        S \in {T \in CsvSessions : /\ Len(T.blocks) = 2
                                   /\ T.bpm = DefaultBpm
                                   /\ T.channels = DefaultChannels
                                   /\ T.blocks[1].drums[4] # <<>>}}

InitPass ==
    /\ \E S \in PassSessions : /\ SessionIs(S)
                                /\ activeView = S.bassSynths[1].id
    /\ last = Op("init", 0, <<>>, TRUE, NoPre)
    /\ audioReady = TRUE
    /\ InitRest

ClockRuns ==
    \E k \in {16, 24} :
        /\ isPlaying
        /\ ctxTime + k * interval <= MaxPassIntervals * interval
        /\ ctxTime' = ctxTime + k * interval
        /\ UNCHANGED <<bpm, audioReady, playVars, timerID, workerInbox, ticksInFlight, trigLog,
                       auxVars>>
        /\ SchedUnchanged

NextPass ==
    \/ StartPlayback
    \/ WorkerOnMessage
    \/ TimerFires
    \/ TickDelivered
    \/ ClockRuns

SpecPass == InitPass /\ [][NextPass]_vars

\* step by step over the length of the shorter one, the log of the realtime
\* scheduler and an offline timeline agree on block, step, drum channels,
\* notes and time offset from the first step
SameDecisions(log, tl) ==
    \A i \in 1..Min(Len(log), Len(tl)) :
        /\ log[i].block = tl[i].block
        /\ log[i].step = tl[i].step
        /\ log[i].drums = tl[i].drums
        /\ log[i].notes = tl[i].notes
        /\ log[i].time - log[1].time = tl[i].time - tl[1].time

renderAudioOnLive(S) ==
    IF RenderThrows(S) THEN [ok |-> FALSE, session |-> S, triggers |-> <<>>]
    ELSE [ok |-> TRUE,
          session |-> [S EXCEPT !.channels = CloneChannels(S.channels)],
          triggers |-> renderTimeline(S, exportReps)]

\* renderAudio() up to 'await offCtx.startRendering()': the value returned,
\* the live session it leaves and the triggers scheduled on the offline
\* context
renderAudio(S) ==
    IF RenderThrows(S) THEN [ok |-> FALSE, session |-> S, triggers |-> <<>>]
    ELSE [ok |-> TRUE, session |-> S, triggers |-> renderTimeline(S, exportReps)]

\* btn-start-render: playback is stopped first
RenderAudio ==
    /\ isPlaying => Len(workerInbox) < MaxInbox
    /\ isPlaying' = FALSE
    /\ workerInbox' = IF isPlaying /\ clockWorker THEN Append(workerInbox, "stop")
                      ELSE workerInbox
    /\ \E r \in {renderAudio(Session)} :
          /\ SessionBecomes(r.session)
          /\ offlineLog' = r.triggers
          /\ last' = Op("renderAudio", 0, <<>>, r.ok, NoPre)
    /\ UNCHANGED <<clipboard, editVars, pendingColorSwap, audioReady, currentPlayStep,
                   currentPlayBlock, nextNoteTime, visualQueue, ctxTime, timerID, ticksInFlight,
                   ioVars, trigLog, alias, clockWorker, toggled>>

\* the variant select of the kick's row in the drum menu
SelectVariant ==
    \E val \in {0, 1} :
        /\ channels[1].variant # val
        /\ channels' = [channels EXCEPT ![1].variant = val]
        /\ last' = Op("setChannelVariant", 0, <<>>, TRUE, NoPre)
        /\ UNCHANGED <<blocks, clipboard, bassSynths, masterVolume, bpm, editVars,
                       pendingColorSwap, audioReady, playVars, clockVars, ioVars, trigLog,
                       auxVars>>

\* the session as it was configured before: the tempo, and the drum kit
\* as it is made or with colours swapped, the kick silenced and another
\* snare
InitRender ==
    /\ \E b \in SchedBpms, cc \in {0, 2} :
          SessionIs([InitialSession EXCEPT !.bpm = b, !.channels = ChannelConfig(cc)])
    /\ activeView = BassId(1)
    /\ audioReady = TRUE
    /\ InitRest
    /\ last = Op("init", 0, <<>>, TRUE, NoPre)

\* renders between edits of the notes, the hits and the drum kit
NextRender ==
    \/ RenderAudio
    \/ ClipPlaceNote
    \/ ClipToggleDrum
    \/ SelectVariant

SpecRender == InitRender /\ [][NextRender]_vars

\* C15: a render leaves the blocks, the BPM, the synths' parameters and the
\* drum kit's master volume and channels as they were, and no later step
\* changes the triggers the render scheduled
C15_RenderFrame ==
    [][/\ last'.op = "renderAudio" => Session' = Session
       /\ last'.op # "renderAudio" => offlineLog' = offlineLog]_vars

\* after a render that was made with swapped channel colours and that
\* scheduled a note and a hit, the live session was edited and would now
\* render otherwise
C15_Witness ==
    /\ \E i \in 1..Len(offlineLog) : offlineLog[i].drums # <<>>
    /\ \E i \in 1..Len(offlineLog) : offlineLog[i].notes # <<>>
    /\ last.op \in {"toggleDrum", "setChannelVariant"}
    /\ \E i \in 1..Len(channels) : channels[i].colorId # i - 1
    /\ offlineLog # renderTimeline(Session, exportReps)

(***************************************************************************)
(* Colour swaps on a session with drum hits: clicks on the colour buttons  *)
(* between clicks on the kick's variant select.                            *)
(***************************************************************************)
\* two blocks with hits on every channel, the drum kit with a silenced kick
\* and changed volumes
SwapSessions ==
    {[InitialSession EXCEPT !.blocks = DrumPattern(BlocksFor(2, <<BassId(1)>>), 2),
                            !.channels = ChannelConfig(1)]}

InitSwap ==
    /\ \E S \in SwapSessions : SessionIs(S)
    /\ activeView = DrumView
    /\ audioReady = TRUE
    /\ InitRest
    /\ last = Op("init", 0, <<>>, TRUE, NoSwap)

NextSwap ==
    \/ HandleColorSwap
    \/ SelectVariant

SpecSwap == InitSwap /\ [][NextSwap]_vars

\* the drum cells exportToCSV writes for the session, in the order of the row
ExportedDrumBits(S) == DrumCells(S.blocks, S.channels)

\* the channel indices the scheduler triggers at each step of each block
StepTriggers(bs, chs) ==
    [b \in 1..Len(bs) |-> [s \in 1..totalSteps |-> DrumTriggers(bs[b].drums[s], chs)]]

\* C21: a click on a colour button (the one that starts, cancels or executes
\* a swap) leaves the blocks, the tempo, the synths and the master volume as
\* they were, changes no channel field but colorId and the colorId of no
\* channel but the two of the swap; the channel indices triggered at every
\* step and the drum cells exportToCSV writes are the same before and after.
C21_SwapFrame ==
    [][last'.op = "colorSwap" =>
          /\ blocks' = blocks
          /\ <<bpm', bassSynths', masterVolume'>> = <<bpm, bassSynths, masterVolume>>
          /\ Len(channels') = Len(channels)
          /\ \A i \in 1..Len(channels) :
                /\ [channels'[i] EXCEPT !.colorId = channels[i].colorId] = channels[i]
                /\ i \notin {last'.idx + 1, last'.pre + 1}
                       => channels'[i].colorId = channels[i].colorId
          /\ StepTriggers(blocks', channels') = StepTriggers(blocks, channels)
          /\ ExportedDrumBits(Session)' = ExportedDrumBits(Session)]_vars

\* a swap was executed between the silenced kick and the snare, both of them
\* hit at one step, and only the snare is triggered there
C21_Witness ==
    /\ last.op = "colorSwap"
    /\ last.pre = 0
    /\ last.idx = 1
    /\ channels[1].colorId = 1
    /\ channels[2].colorId = 0
    /\ channels[1].variant = 0
    /\ channels[2].variant # 0
    /\ \E s \in 1..totalSteps :
          /\ SeqIncludes(blocks[1].drums[s], 0)
          /\ SeqIncludes(blocks[1].drums[s], 1)
          /\ ~SeqIncludes(StepTriggers(blocks, channels)[1][s], 0)
          /\ SeqIncludes(StepTriggers(blocks, channels)[1][s], 1)
          /\ ExportedDrumBits(Session)[s][1] = "1"

\* C22: a change of the tempo leaves the time stamps of the steps dispatched
\* so far (trigger log, marker queue) and the time of the next step as they
\* are; dispatching appends to the log without changing what it holds; and
\* the times of step k and of the step after it are one step duration apart,
\* for the tempo that was in effect when the scheduler advanced past step k.
C22_TempoAtAdvance ==
    [][/\ bpm' # bpm =>
             <<trigLog', visualQueue', nextNoteTime'>> = <<trigLog, visualQueue, nextNoteTime>>
       /\ Len(trigLog') >= Len(trigLog) /\ trigLog' # <<>> =>
             SubSeq(trigLog', 1, Len(trigLog)) = trigLog
       /\ \A k \in 1..(Len(trigLog') - 1) :
             trigLog'[k + 1].time - trigLog'[k].time = SecPerStep(trigLog'[k].bpm)
       /\ trigLog' # <<>> /\ isPlaying' =>
             nextNoteTime' - trigLog'[Len(trigLog')].time
                 = SecPerStep(trigLog'[Len(trigLog')].bpm)]_vars

\* the tempo was changed between the dispatch of two steps by two ticks: the
\* gap between them is the step duration of the old tempo, the next step is
\* due one step duration of the new tempo after the second
C22_Witness ==
    /\ isPlaying
    /\ \E k \in 1..(Len(trigLog) - 1) :
          /\ k + 1 = Len(trigLog)
          /\ trigLog[k].bpm # trigLog[k + 1].bpm
          /\ trigLog[k].at < trigLog[k + 1].at
          /\ trigLog[k + 1].time - trigLog[k].time = SecPerStep(trigLog[k].bpm)
          /\ nextNoteTime - trigLog[k + 1].time = SecPerStep(trigLog[k + 1].bpm)
          /\ SecPerStep(trigLog[k].bpm) # SecPerStep(trigLog[k + 1].bpm)

\* the MIDI channel exportMidi gives each bass track, in the order of the tracks
ExportChannels(bs) == MidiChannels(Len(allTrackKeys(bs)), 0)

\* the events exportMidi writes for the bass tracks
ExportedBassEvents(bs) ==
    Flatten([i \in 1..Len(allTrackKeys(bs)) |->
                BassEvents(bs, allTrackKeys(bs)[i], ExportChannels(bs)[i])])

\* C23: in an export every bass track has a MIDI channel of its own, none has
\* channel 9, the channels are 0, 1, ..., 8, 10, 11, ... in the order of the
\* tracks, and no bass Note-On or Note-Off carries channel 9.
C23_BassChannels ==
    last.op = "exportMidi" =>
        LET chs == ExportChannels(blocks)
            ev == ExportedBassEvents(blocks)
        IN  /\ \A i, j \in 1..Len(chs) : chs[i] = chs[j] => i = j
            /\ \A i \in 1..Len(chs) :
                  /\ chs[i] # DrumMidiChannel
                  /\ chs[i] = IF i <= DrumMidiChannel THEN i - 1 ELSE i
            /\ \A e \in 1..Len(ev) : ev[e].type % 16 # DrumMidiChannel

(***************************************************************************)
(* MIDI files of other writers: one track of Note-On, Note-Off, Control    *)
(* Change, Program Change, Pitch Bend and meta events, written with every  *)
(* status byte or with running status for the Note-On events.              *)
(***************************************************************************)
MaxEvents == 3        \* events of the track before its end-of-track event

\* the kinds of event, as <<status byte, data bytes>>; the key of a bass
\* Note-On depends on its place in the track (k) so that two of them differ
EventKinds == {"bassOn", "bassOnCh1", "drumOn", "zeroVel", "noteOff", "cc", "pc", "pitch", "meta"}

EventOf(kind, k) ==
    CASE kind = "bassOn"    -> [status |-> 144, data |-> <<48 + k, 90>>]
      [] kind = "bassOnCh1" -> [status |-> 145, data |-> <<60 + k, 127>>]
      [] kind = "drumOn"    -> [status |-> 153, data |-> <<38, 100>>]
      [] kind = "zeroVel"   -> [status |-> 144, data |-> <<50, 0>>]
      [] kind = "noteOff"   -> [status |-> 128, data |-> <<48, 64>>]
      [] kind = "cc"        -> [status |-> 176, data |-> <<7, 100>>]
      [] kind = "pc"        -> [status |-> 192, data |-> <<5>>]
      [] kind = "pitch"     -> [status |-> 224, data |-> <<0, 64>>]
      [] kind = "meta"      -> [status |-> 255, data |-> <<3, 2, 78, 68>>]

\* the tracks: every event one step after the one before it
EventLists ==
    UNION {[1..n -> EventKinds] : n \in 1..MaxEvents}

\* the bytes of the events from the k-th on; with running status a Note-On
\* whose status byte is the one written last comes without it
RECURSIVE WriteEvents(_, _, _, _)
WriteEvents(E, k, lastWritten, running) ==
    IF k > Len(E) THEN <<>>
    ELSE LET e == EventOf(E[k], k)
             omit == running /\ e.status = lastWritten /\ e.status \div 16 = 9
         IN  toVLQ(IF k = 1 THEN 0 ELSE StepTicks)
             \o (IF omit THEN <<>> ELSE <<e.status>>)
             \o e.data
             \o WriteEvents(E, k + 1, e.status, running)

FileOf(E, running) == buildMidiFile(<<WriteEvents(E, 1, 0, running) \o MTrackEnd>>)

\* the file of each track with running status, and what the file input's
\* handler makes of the same track with every status byte
RunningFile == [E \in EventLists |-> FileOf(E, TRUE)]
PlainImport == [E \in EventLists |-> ImportedBlocks(parseMidi(FileOf(E, FALSE)), BassId(1))]

MidiFiles == {FileOf(E, r) : E \in EventLists, r \in BOOLEAN}

\* file-upload-midi change: the first file the user picks is read
MidiFileChosen ==
    \E f \in MidiFiles :
        /\ midiFile = <<>>
        /\ midiFile' = f
        /\ last' = Op("chooseMidi", 0, <<>>, TRUE, NoPre)
        /\ UNCHANGED <<blocks, editingBlock>>
        /\ MidiUnchanged

InitRunning ==
    /\ SessionIs(InitialSession)
    /\ audioReady = TRUE
    /\ activeView = BassId(1)
    /\ InitRest
    /\ last = Op("init", 0, <<>>, TRUE, NoPre)

NextRunning ==
    \/ MidiFileChosen
    \/ MidiFileLoaded

SpecRunning == InitRunning /\ [][NextRunning]_vars

\* C24: loading a file whose Note-On events use running status gives the
\* blocks that the same track gives with every status byte written out.
C24_RunningStatus ==
    last.op = "importMidi" =>
        \A E \in EventLists : midiFile = RunningFile[E] => blocks = PlainImport[E]

\* the file of each track with every status byte written out
PlainFile == [E \in EventLists |-> FileOf(E, FALSE)]

\* the steps of the track's Note-On events with a velocity above 0: the k-th
\* event is at tick (k - 1) * StepTicks
SoundingSteps(E) ==
    {StepOfTick((k - 1) * StepTicks) : k \in {k \in 1..Len(E) : E[k] \in {"bassOn", "bassOnCh1", "drumOn"}}}

\* the steps, counted from the first block on, that hold a note or a hit
FilledSteps(bs) ==
    {g \in 0..(Len(bs) * totalSteps - 1) :
        LET b == bs[(g \div totalSteps) + 1]
            s == (g % totalSteps) + 1
        IN  \/ b.drums[s] # <<>>
            \/ \E id \in Keys(b) : b.tracks[id][s] # Null}

\* C25: after a file was loaded, a step holds a note or a hit only if a
\* Note-On event of the file with a velocity above 0 is at that step: a
\* Note-On of velocity 0 and a Note-Off leave nothing.
C25_OnlySoundingNotes ==
    last.op = "importMidi" =>
        \A E \in EventLists :
            midiFile \in {PlainFile[E], RunningFile[E]} =>
                FilledSteps(blocks) \subseteq SoundingSteps(E)

(***************************************************************************)
(* CSV texts edited by hand: the text exportToCSV writes for the initial   *)
(* session, with the first cells of the synth line replaced.               *)
(***************************************************************************)
MaxEditedCells == 2   \* the cells of the synth line that are replaced

\* a note, a cell of three sub-fields, the pitch index 0, a pitch index past
\* the table, and the empty slot
BassCellChoices ==
    { <<"1", Dash, "3", Dash, "0", Dash, "1">>,
      <<"5", Dash, "3", Dash, "1">>,
      <<"0", Dash, "3", Dash, "0", Dash, "0">>,
      <<"1", "3", Dash, "3", Dash, "0", Dash, "0">>,
      <<"0">> }

EditedCsvTexts ==
    {[exportToCSV(InitialSession) EXCEPT ![2] =
         [i \in 1..Len(@) |-> IF i - 1 \in 1..MaxEditedCells THEN c[i - 1] ELSE @[i]]] :
        c \in [1..MaxEditedCells -> BassCellChoices]}

PasteEditedCsv == TypeText(EditedCsvTexts)

NextCells ==
    \/ PasteEditedCsv
    \/ BtnLoadCsv

SpecCells == InitClip /\ [][NextCells]_vars

\* the cell is one the import passes over: its sub-field count is not 4, or
\* its pitch index is not one of 1..12
SkippedCell(cell) ==
    \/ Len(Split(cell, Dash)) # 4
    \/ ParseInt(Split(cell, Dash)[1]) \notin 1..12

\* C26: after the import of a text with such cells the import has succeeded,
\* the steps of the cells that are passed over hold no note, and the steps of
\* the other cells of the line hold the note of their cell.
C26_SkippedCells ==
    (last.op = "loadCSV" /\ csvArea \in EditedCsvTexts) =>
        /\ last.ok
        /\ \A g \in 1..MaxEditedCells :
              LET cell == csvArea[2][g + 1]
                  stored == blocks[1].tracks[BassId(1)][g]
              IN  IF SkippedCell(cell) THEN stored = Null
                  ELSE stored = ParseNoteCell(cell) /\ stored # Null

(***************************************************************************)
(* CSV texts of older versions: the drums line of the exported text with   *)
(* the colour sub-field of the first channel entries left out, unreadable  *)
(* or set.                                                                 *)
(***************************************************************************)
MaxEditedEntries == 2   \* the channel entries whose colour sub-field is replaced

\* what follows 'type-variant-volume' in the entry, and the colour the
\* import is to give the channel (NaN: the channel's own index)
ColorFieldChoices ==
    { [text |-> <<>>, col |-> NaN],
      [text |-> <<Dash, "x">>, col |-> NaN],
      [text |-> <<Dash, "7">>, col |-> 7] }

\* the drums line's first cell with the entries written for the choices c
EditedDrumConfig(c) ==
    Join(<<DrumsTag \o <<":">> \o NumStr(DefaultMasterVolume) \o <<":">> \o NumStr(NumChannels)>>
         \o [i \in 1..NumChannels |->
                TypeStr(DefaultChannels[i].type) \o <<Dash>> \o NumStr(2) \o <<Dash>>
                \o NumStr(DefaultChannels[i].volume)
                \o (IF i <= MaxEditedEntries THEN c[i].text ELSE <<Dash>> \o NumStr(i - 1))], "|")

EntryChoices == [1..MaxEditedEntries -> ColorFieldChoices]

\* the text of each choice
EditedDrumText ==
    [c \in EntryChoices |-> [exportToCSV(InitialSession) EXCEPT ![3][1] = EditedDrumConfig(c)]]

EditedDrumTexts == {EditedDrumText[c] : c \in EntryChoices}

PasteEditedDrums == TypeText(EditedDrumTexts)

\* the drum kit as it is made or with colours swapped; the audio engine
\* initialised or not
InitEntries ==
    /\ \E cc \in {0, 2} : SessionIs([InitialSession EXCEPT !.channels = ChannelConfig(cc)])
    /\ audioReady \in BOOLEAN
    /\ activeView = BassId(1)
    /\ InitRest
    /\ last = Op("init", 0, <<>>, TRUE, NoPre)

NextEntries ==
    \/ PasteEditedDrums
    \/ BtnLoadCsv

SpecEntries == InitEntries /\ [][NextEntries]_vars

\* C27: after the import of a text whose channel entries have no colour
\* sub-field, an unreadable one or a number, the import has succeeded and
\* each channel has its own index as colour in the first two cases, whatever
\* colour it had, and the number of the entry in the third.
C27_ColorDefault ==
    last.op = "loadCSV" =>
        \A c \in EntryChoices :
            csvArea = EditedDrumText[c] =>
                /\ last.ok
                /\ \A i \in 1..NumChannels :
                      channels[i].colorId =
                          IF i <= MaxEditedEntries /\ ~IsNaN(c[i].col) THEN c[i].col ELSE i - 1

\* the kick had the colour 8 and its entry has no colour sub-field: it has
\* the colour 0 after the import; the snare's entry has the colour 7
C27_Witness ==
    /\ last.op = "loadCSV"
    /\ last.ok
    /\ last.pre.channels[1].colorId = 8
    /\ Len(Split(Split(csvArea[3][1], "|")[2], Dash)) = 3
    /\ At(Split(Split(csvArea[3][1], "|")[3], Dash), 3) = <<"7">>
    /\ channels[1].colorId = 0
    /\ channels[2].colorId = 7
    /\ channels[1].variant = 2

(***************************************************************************)
(* Moves in a list of blocks that differ: block i holds a hit of channel i *)
(* at its step i, some lists hold two equal blocks.                        *)
(***************************************************************************)
MaxMoveBlocks == 3    \* the longest block list that is moved in

MoveLists ==
    {[i \in 1..n |-> [InitialBlocks[1] EXCEPT !.drums[tag[i]] = <<tag[i]>>]] :
        n \in 1..MaxMoveBlocks, tag \in [1..MaxMoveBlocks -> 1..MaxMoveBlocks]}

InitMove ==
    /\ \E bs \in MoveLists : SessionIs([InitialSession EXCEPT !.blocks = bs])
    /\ audioReady = TRUE
    /\ activeView = BassId(1)
    /\ InitRest
    /\ last = Op("init", 0, <<>>, TRUE, NoPre)

\* moveBlock(idx, dir) for a block of the list and a neighbour on either side
CallMoveBlock ==
    \E idx \in 0..(Len(blocks) - 1) : \E dir \in {0 - 1, 1} :
        \E r \in {moveBlock(Store, idx, dir)} :
            /\ StoreBecomes(r)
            /\ last' = Op("moveBlock", idx, <<dir>>, r.ret, NoPre)
            /\ ClipUnchanged

NextMove ==
    \/ CallMoveBlock
    \/ ClipToggleDrum

SpecMove == InitMove /\ [][NextMove]_vars

\* how many positions of the list hold the block x
Occurrences(bs, x) == Cardinality({i \in 1..Len(bs) : bs[i] = x})

\* C28: moveBlock(idx, dir) for a block of the list returns true exactly when
\* idx + dir is a position of the list; then the two blocks have changed
\* places and every other position holds what it held; otherwise the list is
\* as it was; the length and the number of occurrences of every block are
\* kept either way.
C28_MoveBlock ==
    [][(last'.op = "moveBlock" /\ last'.idx >= 0 /\ last'.idx < Len(blocks)) =>
          LET idx == last'.idx
              t == last'.idx + last'.id[1]
              n == Len(blocks)
          IN  /\ last'.ok = (IF t >= 0 /\ t < n THEN "true" ELSE "false")
              /\ Len(blocks') = n
              /\ last'.ok = "true" =>
                    /\ blocks'[t + 1] = blocks[idx + 1]
                    /\ blocks'[idx + 1] = blocks[t + 1]
                    /\ \A j \in 1..n : j \notin {idx + 1, t + 1} => blocks'[j] = blocks[j]
              /\ last'.ok = "false" => blocks' = blocks
              /\ \A j \in 1..n : Occurrences(blocks', blocks[j]) = Occurrences(blocks, blocks[j])
    ]_vars

\* the first of three blocks was moved to the right: it is the second now,
\* the third block, equal to what the second was, stayed where it was
C28_Witness ==
    /\ last.op = "moveBlock"
    /\ last.idx = 0
    /\ last.id = <<1>>
    /\ last.ok = "true"
    /\ Len(blocks) = 3
    /\ blocks[2].drums[1] = <<1>>
    /\ blocks[1].drums[2] = <<2>>
    /\ blocks[3] = blocks[1]

(***************************************************************************)
(* Track registration: registerTrack and removeTrack for the ids of the    *)
(* synths, between new blocks and notes written on any track.              *)
(***************************************************************************)
CallRegisterTrack ==
    \E id \in TrackIds :
        /\ blocks' = registerTrack(blocks, id)
        /\ last' = Op("registerTrack", 0, id, TRUE, NoPre)
        /\ UNCHANGED <<editingBlock, activeView>>
        /\ StoreUnchanged

CallRemoveTrack ==
    \E id \in TrackIds :
        /\ blocks' = removeTrack(blocks, id)
        /\ last' = Op("removeTrack", 0, id, TRUE, NoPre)
        /\ UNCHANGED <<editingBlock, activeView>>
        /\ StoreUnchanged

NextRegister ==
    \/ CallRegisterTrack
    \/ CallRemoveTrack
    \/ StoreAddBlock
    \/ StoreWriteNote

SpecRegister == Init /\ [][NextRegister]_vars

\* block c is block b but for the tracks other than those of K
SameButTracks(b, c, K) ==
    /\ c.drums = b.drums
    /\ \A k \in (Keys(b) \cup Keys(c)) \ K : k \in Keys(b) /\ k \in Keys(c) /\ c.tracks[k] = b.tracks[k]

\* C29: registerTrack(id) leaves every block that has the track as it is,
\* notes included, and gives every other block the track with totalSteps
\* null slots and nothing else; a second registerTrack(id) changes nothing;
\* removeTrack(id) leaves no block with the key and the other tracks and the
\* drums as they are.
C29_RegisterTrack ==
    [][/\ last'.op = "registerTrack" =>
             /\ Len(blocks') = Len(blocks)
             /\ \A b \in 1..Len(blocks) :
                   IF last'.id \in Keys(blocks[b]) THEN blocks'[b] = blocks[b]
                   ELSE /\ Keys(blocks'[b]) = Keys(blocks[b]) \cup {last'.id}
                        /\ Len(blocks'[b].tracks[last'.id]) = totalSteps
                        /\ \A s \in 1..totalSteps : blocks'[b].tracks[last'.id][s] = Null
                        /\ SameButTracks(blocks[b], blocks'[b], {last'.id})
             /\ registerTrack(blocks', last'.id) = blocks'
       /\ last'.op = "removeTrack" =>
             /\ Len(blocks') = Len(blocks)
             /\ \A b \in 1..Len(blocks) :
                   /\ Keys(blocks'[b]) = Keys(blocks[b]) \ {last'.id}
                   /\ SameButTracks(blocks[b], blocks'[b], {last'.id})
    ]_vars

\* bass-2 was registered when both blocks had it, with a note on it: the note
\* is there
C29_Witness ==
    /\ last.op = "registerTrack"
    /\ last.id = BassId(2)
    /\ Len(blocks) = 2
    /\ \A b \in 1..2 : Keys(blocks[b]) = {BassId(1), BassId(2)}
    /\ \E s \in 1..totalSteps : blocks[2].tracks[BassId(2)][s] # Null
    /\ \E s \in 1..totalSteps : blocks[1].tracks[BassId(1)][s] # Null

(***************************************************************************)
(* The walk of the pattern: a session of two blocks is started on either   *)
(* block, stopped and started again while the audio clock runs; no block   *)
(* is added, removed or moved.                                             *)
(***************************************************************************)
MaxWalkIntervals == 56   \* the audio clock of a walk runs for this many worker intervals

InitWalk ==
    /\ \E S \in PassSessions : /\ SessionIs(S)
                                /\ Len(S.bassSynths) = 1
                                /\ activeView = S.bassSynths[1].id
    /\ last = Op("init", 0, <<>>, TRUE, NoPre)
    /\ audioReady = TRUE
    /\ InitRest0
    /\ clockWorker = TRUE

\* goToBlock(idx) from the block buttons of the editor
GoToBlock ==
    \E idx \in 0..(Len(blocks) - 1) :
        /\ idx # editingBlock
        /\ ~isPlaying
        /\ editingBlock' = idx
        /\ UNCHANGED <<blocks, clipboard, bassSynths, masterVolume, channels, bpm, selectedStep,
                       activeView, currentOctave, pendingColorSwap, audioReady, playVars,
                       clockVars, ioVars, last, trigLog, auxVars>>

\* the audio clock moves on, playing or stopped, in strides of 16 and of 24
\* worker intervals
WalkClockRuns ==
    \E k \in {16, 24} :
        /\ ctxTime + k * interval <= MaxWalkIntervals * interval
        /\ ctxTime' = ctxTime + k * interval
        /\ UNCHANGED <<bpm, audioReady, playVars, timerID, workerInbox, ticksInFlight, trigLog,
                       auxVars>>
        /\ SchedUnchanged

NextWalk ==
    \/ GoToBlock
    \/ StartPlayback
    \/ StopPlayback
    \/ WorkerOnMessage
    \/ TimerFires
    \/ TickDelivered
    \/ WalkClockRuns
    \/ RenderLoop

SpecWalk == InitWalk /\ [][NextWalk]_vars

\* step i + 1 is the step after step i
FollowsInWalk(a, b) ==
    /\ b.step = (a.step + 1) % totalSteps
    /\ b.block = IF a.step = totalSteps - 1 THEN (a.block + 1) % a.nblocks ELSE a.block
    /\ b.time > a.time

\* C30: a start puts the play position on step 0 of the block being edited,
\* due StartDelay (100 ms) after the start, with an empty marker queue; the
\* first step dispatched after it is that one, at that time; every next one
\* is the following step of the block, or step 0 of the next block (the
\* first after the last) after step 15; and the marker queue holds what is
\* left of the dispatched steps, in strictly increasing time.
C30_ConsecutiveWalk ==
    [][/\ (~isPlaying /\ isPlaying') =>
             /\ currentPlayStep' = 0
             /\ currentPlayBlock' = editingBlock
             /\ nextNoteTime' = ctxTime + StartDelay
             /\ visualQueue' = <<>>
             /\ trigLog' = <<>>
       /\ (trigLog = <<>> /\ trigLog' # <<>>) =>
             /\ trigLog'[1].step = currentPlayStep
             /\ trigLog'[1].block = currentPlayBlock
             /\ trigLog'[1].time = nextNoteTime
             /\ trigLog'[1].step = 0
       /\ (trigLog = <<>> /\ trigLog' = <<>> /\ isPlaying' = isPlaying) =>
             <<currentPlayStep', currentPlayBlock', nextNoteTime'>>
                 = <<currentPlayStep, currentPlayBlock, nextNoteTime>>
       /\ \A i \in 1..(Len(trigLog') - 1) : FollowsInWalk(trigLog'[i], trigLog'[i + 1])
       /\ \A i \in 1..(Len(visualQueue') - 1) : visualQueue'[i].time < visualQueue'[i + 1].time
       /\ Len(visualQueue') <= Len(trigLog')
       /\ \A i \in 1..Len(visualQueue') :
             LET e == trigLog'[Len(trigLog') - Len(visualQueue') + i]
             IN  visualQueue'[i] = [step |-> e.step, block |-> e.block, time |-> e.time]
    ]_vars

\* started on the second block, the walk has gone through its step 15 to
\* step 0 of the first block, by a tick that found several steps due
C30_Witness ==
    /\ isPlaying
    /\ editingBlock = 1
    /\ Len(trigLog) > totalSteps
    /\ trigLog[1].block = 1
    /\ trigLog[totalSteps].step = totalSteps - 1
    /\ trigLog[totalSteps + 1].block = 0
    /\ trigLog[totalSteps + 1].step = 0
    /\ \E i \in 1..(Len(trigLog) - 1) :
          trigLog[i].at = trigLog[i + 1].at /\ trigLog[i + 1].time < trigLog[i + 1].at

(***************************************************************************)
(* Ticks on time.  The start and every tick note the audio-clock time at   *)
(* which they happen in `last', with a flag telling whether the first tick *)
(* after the start came within the look-ahead window of the start and      *)
(* every later tick within the look-ahead window of the tick before it.    *)
(***************************************************************************)
SchedFrame ==
    UNCHANGED <<blocks, clipboard, bassSynths, masterVolume, channels, editVars,
                pendingColorSwap, ioVars>>

\* startPlayback in a browser that gives the context and the worker
StartPlaybackTimed ==
    /\ ~isPlaying
    /\ Len(workerInbox) < MaxInbox
    /\ audioReady' = TRUE
    /\ clockWorker' = TRUE
    /\ isPlaying' = TRUE
    /\ currentPlayStep' = 0
    /\ currentPlayBlock' = editingBlock
    /\ nextNoteTime' = ctxTime + StartDelay
    /\ visualQueue' = <<>>
    /\ workerInbox' = Append(workerInbox, "start")
    /\ toggled' = "true"
    /\ trigLog' = <<>>
    /\ last' = Op("start", ctxTime, <<>>, TRUE, NoPre)
    /\ UNCHANGED <<bpm, ctxTime, timerID, ticksInFlight, alias, offlineLog>>
    /\ SchedFrame

\* clockWorker.onmessage in the engine: a tick runs scheduler()
TickDeliveredTimed ==
    /\ ticksInFlight > 0
    /\ ticksInFlight' = ticksInFlight - 1
    /\ LET st == scheduler(SchedState)
       IN  /\ nextNoteTime' = st.nextNoteTime
           /\ currentPlayStep' = st.step
           /\ currentPlayBlock' = st.block
           /\ visualQueue' = st.visualQueue
           /\ trigLog' = st.trigLog
    /\ last' = Op("tick", ctxTime, <<>>, last.ok /\ ctxTime - last.idx <= lookahead, NoPre)
    /\ UNCHANGED <<bpm, audioReady, isPlaying, ctxTime, timerID, workerInbox, auxVars>>
    /\ SchedFrame

NextTimely ==
    \/ StartPlaybackTimed
    \/ StopPlayback
    \/ WorkerOnMessage
    \/ TimerFires
    \/ TickDeliveredTimed
    \/ ClockAdvances
    \/ SetBpm
    \/ RenderLoop

SpecTimely == Init /\ [][NextTimely]_vars

\* C31: when the first tick after the start came within the look-ahead
\* window and every tick since within the look-ahead window of the tick
\* before it, every step dispatched since the start has a scheduled time
\* that is not below the audio-clock time of the tick that dispatched it.
C31_NeverInPast ==
    last.ok => \A i \in 1..Len(trigLog) : trigLog[i].time >= trigLog[i].at

\* ticks on time all along, the first one a whole look-ahead window after
\* the start so that its first step is due at the very time of the tick,
\* and a later tick that dispatched a step too
C31_Witness ==
    /\ last.op = "tick"
    /\ last.ok
    /\ Len(trigLog) >= 2
    /\ trigLog[1].time = trigLog[1].at
    /\ trigLog[Len(trigLog)].at > trigLog[1].at

\* C32: with a positive BPM, when a tick has run scheduler() the time of the
\* next step is at least the audio-clock time of the tick plus the
\* look-ahead window, and every step the tick dispatched has a scheduled
\* time strictly below that.
C32_WindowFilled ==
    [][ticksInFlight' < ticksInFlight =>
          /\ bpm > 0
          /\ nextNoteTime' >= ctxTime + lookahead
          /\ Len(trigLog') >= Len(trigLog)
          /\ \A i \in (Len(trigLog) + 1)..Len(trigLog') :
                 /\ trigLog'[i].at = ctxTime
                 /\ trigLog'[i].time < ctxTime + lookahead]_vars

\* a tick has just dispatched two steps, the second one later than the
\* audio clock, and left the next step beyond the look-ahead window
C32_Witness ==
    /\ Len(trigLog) >= 2
    /\ trigLog[Len(trigLog)].at = ctxTime
    /\ trigLog[Len(trigLog) - 1].at = ctxTime
    /\ trigLog[Len(trigLog)].time > ctxTime
    /\ trigLog[Len(trigLog)].time < ctxTime + lookahead
    /\ nextNoteTime >= ctxTime + lookahead
    /\ nextNoteTime = trigLog[Len(trigLog)].time + SecPerStep(bpm)

(***************************************************************************)
(* The refill loop, one iteration at a time, with any BPM the session can  *)
(* hold.  AppState.bpm is the number the division of advanceNote sees:     *)
(* Number(e.target.value) for the text of the BPM input, parseInt of the   *)
(* header for an imported CSV.  60 / 0 is Infinity, a sum with Infinity is *)
(* Infinity, a sum or a comparison with NaN is NaN or false.  `last' tells *)
(* whether a call of scheduler() is running and how many iterations it has *)
(* made; the worker and the audio clock run on threads of their own, the   *)
(* handlers of the page run between the calls.                             *)
(***************************************************************************)
MaxLoopWindows == 1       \* the audio clock of the loop runs for this many look-ahead windows
MaxLoopIterations == 4    \* iterations of the refill loop followed in full in one tick

Infinity == 0 - NaN

\* the texts of the BPM input
BpmTexts == {<<"1", "2", "0">>, <<>>, <<"-", "1", "2", "0">>, <<"x">>}

\* the BPM fields of the headers of the CSV texts
HeaderBpms == {<<"0">>, <<"-", "1", "2", "0">>}

\* secPerStep = 60.0 / bpm / 4
StepSeconds(b) ==
    IF IsNaN(b) THEN NaN
    ELSE IF b = 0 THEN Infinity
    ELSE IF b < 0 THEN 0 - SecPerStep(0 - b)
    ELSE SecPerStep(b)

\* a + b of two times
AddTime(a, b) ==
    IF IsNaN(a) \/ IsNaN(b) THEN NaN
    ELSE IF a = Infinity \/ b = Infinity THEN Infinity
    ELSE a + b

\* this.nextNoteTime < this.ctx.currentTime + this.lookahead
LoopCondition(t, now) == ~IsNaN(t) /\ t # Infinity /\ t < now + lookahead

\* advanceNote with any number as the BPM
advanceNoteAny(st) ==
    LET wrap == st.step + 1 >= totalSteps
        nb == IF wrap THEN st.block + 1 ELSE st.block
    IN  [st EXCEPT !.nextNoteTime = AddTime(st.nextNoteTime, StepSeconds(st.bpm)),
                   !.step = IF wrap THEN 0 ELSE st.step + 1,
                   !.block = IF wrap /\ nb >= st.nblocks THEN 0 ELSE nb]

\* a call of scheduler() has begun and has not returned
Running == last.op = "scheduler" /\ ~last.ok

\* the header of a CSV text with the BPM field b, and the drum line
HeaderBpmText(b) ==
    << <<(b \o <<Dash>> \o NumStr(totalSteps) \o <<Dash, "1">>)>>,
       <<DrumConfigStr(DefaultMasterVolume, DefaultChannels)>> >>

HeaderBpmTexts == {HeaderBpmText(b) : b \in HeaderBpms}

LoopStartPlayback == ~Running /\ StartPlayback

LoopPasteCsv == ~Running /\ TypeText(HeaderBpmTexts)

LoopLoadCsv == ~Running /\ csvArea # <<>> /\ BtnLoadCsv

\* bpm-input onchange
TypeBpm ==
    \E t \in BpmTexts :
        /\ ~Running
        /\ bpm' = ToNumber(t)
        /\ UNCHANGED <<audioReady, playVars, clockVars, trigLog, auxVars>>
        /\ SchedUnchanged

\* clockWorker.onmessage in the engine: a tick calls scheduler()
TickEnters ==
    /\ ~Running
    /\ ticksInFlight > 0
    /\ ticksInFlight' = ticksInFlight - 1
    /\ last' = Op("scheduler", 0, <<>>, FALSE, NoPre)
    /\ UNCHANGED <<bpm, audioReady, playVars, ctxTime, timerID, workerInbox, trigLog, auxVars>>
    /\ SchedFrame

\* the loop condition holds: scheduleNote and advanceNote.  The first
\* MaxLoopIterations iterations of a call are followed in full.  A loop whose
\* nextNoteTime goes down is followed further with the time and the queues
\* held: the time stays below currentTime + lookahead, as the lower time of
\* the code does, and the play position goes on
SchedulerIterates ==
    /\ Running
    /\ LoopCondition(nextNoteTime, ctxTime)
    /\ LET st == advanceNoteAny(scheduleNote(SchedState))
           counted == last.idx < MaxLoopIterations
       IN  /\ counted \/ (~IsNaN(st.nextNoteTime) /\ st.nextNoteTime < nextNoteTime)
           /\ nextNoteTime' = IF counted THEN st.nextNoteTime ELSE nextNoteTime
           /\ currentPlayStep' = st.step
           /\ currentPlayBlock' = st.block
           /\ visualQueue' = IF counted THEN st.visualQueue ELSE visualQueue
           /\ trigLog' = IF counted THEN st.trigLog ELSE trigLog
           /\ last' = IF counted THEN [last EXCEPT !.idx = @ + 1] ELSE last
    /\ UNCHANGED <<bpm, audioReady, isPlaying, clockVars, auxVars>>
    /\ SchedFrame

\* the loop condition fails: scheduler() returns
SchedulerReturns ==
    /\ Running
    /\ ~LoopCondition(nextNoteTime, ctxTime)
    /\ last' = [last EXCEPT !.ok = TRUE]
    /\ UNCHANGED <<bpm, audioReady, playVars, clockVars, trigLog, auxVars>>
    /\ SchedFrame

\* the audio clock moves on by a look-ahead window
LoopClockRuns ==
    /\ ctxTime + lookahead <= MaxLoopWindows * lookahead
    /\ ctxTime' = ctxTime + lookahead
    /\ UNCHANGED <<bpm, audioReady, playVars, timerID, workerInbox, ticksInFlight, trigLog,
                   auxVars>>
    /\ SchedUnchanged

InitLoop ==
    /\ SessionIs(InitialSession)
    /\ audioReady = TRUE
    /\ activeView = BassId(1)
    /\ InitRest
    /\ last = Op("init", 0, <<>>, TRUE, NoPre)

NextLoop ==
    \/ LoopStartPlayback
    \/ TypeBpm
    \/ LoopPasteCsv
    \/ LoopLoadCsv
    \/ WorkerOnMessage
    \/ TimerFires
    \/ TickEnters
    \/ SchedulerIterates
    \/ SchedulerReturns
    \/ LoopClockRuns

\* the engine goes on with a call that has begun
SpecLoop ==
    InitLoop /\ [][NextLoop]_vars /\ WF_vars(SchedulerIterates) /\ WF_vars(SchedulerReturns)

\* C33: every call of scheduler() returns, whatever BPM the session holds:
\* the loop makes a finite number of iterations.
C33_TickTerminates == Running ~> ~Running

(***************************************************************************)
(* What a tick leaves of the store.  scheduler() works on the blocks, the  *)
(* synths and the channels themselves (getStepData hands out the arrays of *)
(* the block), so the tick of this specification takes the store from the  *)
(* state the loop ends in.                                                 *)
(***************************************************************************)
TickOnStore ==
    /\ ticksInFlight > 0
    /\ ticksInFlight' = ticksInFlight - 1
    /\ LET st == scheduler(SchedState)
       IN  /\ nextNoteTime' = st.nextNoteTime
           /\ currentPlayStep' = st.step
           /\ currentPlayBlock' = st.block
           /\ visualQueue' = st.visualQueue
           /\ trigLog' = st.trigLog
           /\ blocks' = st.blocks
           /\ bassSynths' = st.bassSynths
           /\ channels' = st.channels
    /\ UNCHANGED <<clipboard, masterVolume, editVars, pendingColorSwap, ioVars, last, bpm,
                   audioReady, isPlaying, ctxTime, timerID, workerInbox, auxVars>>

NextFrame ==
    \/ StartPlayback
    \/ StopPlayback
    \/ WorkerOnMessage
    \/ TimerFires
    \/ TickOnStore
    \/ WalkClockRuns

SpecFrame == InitWalk /\ [][NextFrame]_vars

WorkerMessages == {"start", "stop", "interval"}

\* a worker that makes a timer at every "start"
onmessageAlways(w, data) ==
    IF data = "start" THEN [timerID |-> TRUE, timers |-> w.timers + 1]
    ELSE IF data = "stop"
    THEN [timerID |-> FALSE, timers |-> IF w.timerID THEN w.timers - 1 ELSE w.timers]
    ELSE w

\* self.onmessage
onmessage(w, data) ==
    IF data = "start"
    THEN (IF ~w.timerID THEN [timerID |-> TRUE, timers |-> w.timers + 1] ELSE w)
    ELSE IF data = "stop"
    THEN [timerID |-> FALSE, timers |-> IF w.timerID THEN w.timers - 1 ELSE w.timers]
    ELSE (IF w.timerID THEN [timerID |-> TRUE, timers |-> (w.timers - 1) + 1] ELSE w)

\* postMessage to the worker: "start", "stop" or { interval }
PostToWorker ==
    \E data \in WorkerMessages :
        /\ Len(workerInbox) < MaxInbox
        /\ workerInbox' = Append(workerInbox, data)
        /\ UNCHANGED <<bpm, audioReady, playVars, ctxTime, timerID, ticksInFlight, trigLog,
                       auxVars>>
        /\ SchedUnchanged

\* the worker handles the oldest message posted to it
WorkerHandles ==
    /\ workerInbox # <<>>
    /\ LET data == Head(workerInbox)
           w == onmessage([timerID |-> timerID, timers |-> last.idx], data)
       IN  /\ timerID' = w.timerID
           /\ last' = Op("worker", w.timers,
                         IF data \in {"start", "stop"} THEN <<data>> ELSE last.id,
                         TRUE, [data |-> data, timerID |-> timerID])
    /\ workerInbox' = Tail(workerInbox)
    /\ UNCHANGED <<bpm, audioReady, playVars, ctxTime, ticksInFlight, trigLog, auxVars>>
    /\ SchedFrame

\* a timer of the worker fires: postMessage("tick")
WorkerTimerFires ==
    /\ last.idx > 0
    /\ ticksInFlight < MaxTicks
    /\ ticksInFlight' = ticksInFlight + 1
    /\ UNCHANGED <<bpm, audioReady, playVars, ctxTime, timerID, workerInbox, trigLog, auxVars>>
    /\ SchedUnchanged

InitWorker ==
    /\ SessionIs(InitialSession)
    /\ audioReady = TRUE
    /\ activeView = BassId(1)
    /\ InitRest
    /\ last = Op("init", 0, <<>>, TRUE, NoPre)

NextWorker ==
    \/ PostToWorker
    \/ WorkerHandles
    \/ WorkerTimerFires
    \/ TickDelivered

SpecWorker == InitWorker /\ [][NextWorker]_vars

\* C35: after any sequence of "start", "stop" and { interval } messages the
\* worker has one active timer at most; a timer is active exactly when the
\* last "start" or "stop" it received was a "start"; a "start" received
\* while running makes no second timer; an { interval } received while
\* stopped leaves the worker without a timer, so that no tick is posted.
C35_OneTimer ==
    [][Len(workerInbox') < Len(workerInbox) =>
          /\ last'.idx \in {0, 1}
          /\ timerID' <=> (last'.idx = 1)
          /\ timerID' <=> (last'.id = <<"start">>)
          /\ (Head(workerInbox) = "start" /\ timerID) => (timerID' /\ last'.idx = last.idx)
          /\ (Head(workerInbox) = "interval" /\ ~timerID)
                => (~timerID' /\ last'.idx = 0 /\ ticksInFlight' = ticksInFlight)]_vars

\* the worker has just received a "start" while it was running, ticks are
\* on their way, and a "stop" and an { interval } wait to be handled
C35_Witness ==
    /\ last.op = "worker"
    /\ last.pre.data = "start"
    /\ last.pre.timerID
    /\ timerID
    /\ last.idx = 1
    /\ ticksInFlight > 0
    /\ workerInbox = <<"stop", "interval">>

(***************************************************************************)
(* The render loop with the visualizer mode.  AppState.followPlayback is   *)
(* read by renderLoop only and btn-toggle-visualizer flips it at any time, *)
(* so each call of renderLoop finds it on or off.  lastDrawnStep is the    *)
(* step of the marker consumed last, -1 before the first one: the markers  *)
(* consumed since the start are the steps of trigLog that are no longer in *)
(* visualQueue.                                                            *)
(***************************************************************************)
lastDrawnStep ==
    IF Len(trigLog) > Len(visualQueue) THEN trigLog[Len(trigLog) - Len(visualQueue)].step
    ELSE 0 - 1

\* renderLoop: the edited block after the markers of q that are due at now
RECURSIVE renderLoop(_, _, _, _, _)
renderLoop(q, now, drawn, eb, follow) ==
    IF q = <<>> \/ q[1].time > now THEN eb
    ELSE IF drawn = q[1].step THEN renderLoop(Tail(q), now, drawn, eb, follow)
    ELSE renderLoop(Tail(q), now, q[1].step,
                    IF follow /\ q[1].block # eb THEN q[1].block ELSE eb, follow)

RenderLoopFollows ==
    \E followPlayback \in BOOLEAN :
        /\ audioReady
        /\ visualQueue # <<>>
        /\ visualQueue[1].time <= ctxTime
        /\ visualQueue' = DropDue(visualQueue, ctxTime)
        /\ editingBlock' = renderLoop(visualQueue, ctxTime, lastDrawnStep, editingBlock,
                                      followPlayback)
        /\ UNCHANGED <<blocks, clipboard, bassSynths, masterVolume, channels, bpm, selectedStep,
                       activeView, currentOctave, pendingColorSwap, audioReady, isPlaying,
                       currentPlayStep, currentPlayBlock, nextNoteTime, clockVars, ioVars, last,
                       trigLog, auxVars>>

NextFollow ==
    \/ StartPlayback
    \/ WorkerOnMessage
    \/ TimerFires
    \/ TickDelivered
    \/ ClockAdvances
    \/ BtnAddBlock
    \/ BtnDelBlock
    \/ RenderLoopFollows

SpecFollow == InitClip /\ [][NextFollow]_vars

\* C36: in every reachable state the edited-block index is an index into the
\* block list, also when the visualizer mode is on and a marker queued for a
\* block is consumed after the block was removed.
C36_EditingBlockValid == editingBlock >= 0 /\ editingBlock < Len(blocks)

(***************************************************************************)
(* The drum-hit lists under the editor's drum rows, the block copies and   *)
(* the imports.  The CSV texts are the export of the initial session with  *)
(* the drum cell of the first step written by hand.                        *)
(***************************************************************************)
\* the drum row clicked: the last channel
ToggleChannels == {NumChannels - 1}

\* the cells: first and last channel, and ten characters with the last one
\* set
DrumCellChoices ==
    { <<"1", "0", "0", "0", "0", "0", "0", "0", "1">>,
      <<"0", "0", "0", "0", "0", "0", "0", "0", "0", "1">> }

DrumCellTexts == {[exportToCSV(InitialSession) EXCEPT ![3][2] = cell] : cell \in DrumCellChoices}

PasteDrumCells == TypeText(DrumCellTexts)

\* the click on the row of a channel in the drum editor, on the selected
\* step of the edited block
ToggleDrumRow ==
    \E chId \in ToggleChannels :
        /\ editingBlock < Len(blocks)
        /\ StoreBecomes(toggleDrumIn(Store, editingBlock, selectedStep, chId))
        /\ last' = Op("toggleDrum", chId, <<>>, "undefined", NoPre)
        /\ UNCHANGED editingBlock
        /\ UiUnchanged

\* a MIDI file with both hats on one step and the last and the first channel
\* on the next: the export of such a pattern
DrumMidiFiles ==
    {exportMidi(HitsAt(HitsAt(InitialBlocks, 1, 0, <<2, 3>>), 1, 1, <<NumChannels - 1, 0>>),
                DefaultBpm)}

\* file-upload-midi change: the first file the user picks is read
DrumMidiChosen ==
    \E f \in DrumMidiFiles :
        /\ midiFile = <<>>
        /\ midiFile' = f
        /\ last' = Op("chooseMidi", 0, <<>>, TRUE, NoPre)
        /\ UNCHANGED <<blocks, editingBlock>>
        /\ MidiUnchanged

NextDrums ==
    \/ ToggleDrumRow
    \/ CallDuplicateBlock
    \/ ClipClearBlock
    \/ BtnMemCopy
    \/ BtnMemPaste
    \/ PasteDrumCells
    \/ BtnLoadCsv
    \/ DrumMidiChosen
    \/ MidiFileLoaded

SpecDrums == InitClip /\ [][NextDrums]_vars

\* C37: every drum-step list of every block holds each entry once, and
\* channel indices 0..8 only.
C37_DrumLists ==
    \A b \in 1..Len(blocks) : \A s \in 1..totalSteps :
        LET d == blocks[b].drums[s]
        IN  /\ \A i, j \in 1..Len(d) : d[i] = d[j] => i = j
            /\ \A i \in 1..Len(d) : d[i] \in 0..(NumChannels - 1)

(***************************************************************************)
(* Drum hits through the MIDI codec: sessions with the hits of one step,   *)
(* the first, a middle or the last step of the pattern, exported and       *)
(* loaded again.                                                           *)
(***************************************************************************)
\* the hits of the step: one channel, the two hats, two percussion channels,
\* every channel
DrumHitChoices ==
    {<<i>> : i \in 0..(NumChannels - 1)}
    \cup {<<2, 3>>, <<NumChannels - 1, 4>>, [i \in 1..NumChannels |-> i - 1]}

DrumMapSteps(nb) == {0, 5, (nb * totalSteps) - 1}

DrumMapSession(nb, g, hits) ==
    [InitialSession EXCEPT
        !.blocks = HitsAt(BlocksFor(nb, <<BassId(1)>>), (g \div totalSteps) + 1,
                          g % totalSteps, hits)]

InitDrumMap ==
    /\ \E nb \in 1..MaxBlocks : \E g \in DrumMapSteps(nb) : \E hits \in DrumHitChoices :
          SessionIs(DrumMapSession(nb, g, hits))
    /\ activeView \in {BassId(1), DrumView}
    /\ last = Op("init", 0, <<>>, TRUE, NoPre)
    /\ audioReady = TRUE
    /\ InitRest

NextDrumMap == BtnExportMidi \/ MidiFileLoaded

SpecDrumMap == InitDrumMap /\ [][NextDrumMap]_vars

\* the Note-On events of the drum track of the file exported from bs
DrumNoteOns(bs) ==
    LET evs == DrumEvents(bs)
    IN  {[t |-> evs[i].t, note |-> evs[i].note] : i \in {j \in 1..Len(evs) : evs[j].type = 153}}

\* the note and the slot a drum channel is expected to map to
ExpectedNote(i) ==
    CASE i = 0 -> 36 [] i = 1 -> 38 [] i = 2 -> 42 [] i = 3 -> 46 [] OTHER -> 48 + i

ExpectedSlot(i) ==
    CASE i = 0 -> 0 [] i = 1 -> 1 [] i \in {2, 3} -> 2 [] OTHER -> 3

\* C38: exporting a session to MIDI and parsing the file maps a drum hit on
\* channel i at global step g to a hit at step g on slot 0 when i = 0, slot 1
\* when i = 1, slot 2 when i is 2 or 3 and slot 3 when i is 4 or more (the
\* export writes the notes 36, 38, 42, 46 and 48 + i at tick g * 120), and
\* each imported step lists a slot at most once.
C38_DrumSlotMapping ==
    (last.op = "importMidi" /\ midiFile = exportMidi(last.pre.blocks, last.pre.bpm)) =>
        /\ \A b \in 1..Len(last.pre.blocks) : \A s \in 1..totalSteps :
              LET hits == last.pre.blocks[b].drums[s]
              IN  \A h \in 1..Len(hits) :
                     /\ [t |-> ((b - 1) * 16 + (s - 1)) * 120, note |-> ExpectedNote(hits[h])]
                            \in DrumNoteOns(last.pre.blocks)
                     /\ last.ok
                     /\ b <= Len(blocks)
                     /\ SeqIncludes(blocks[b].drums[s], ExpectedSlot(hits[h]))
        /\ \A b \in 1..Len(blocks) : \A s \in 1..totalSteps :
              LET d == blocks[b].drums[s]
              IN  \A i, j \in 1..Len(d) : d[i] = d[j] => i = j

\* both hats on the last step of a two-block session came back as one hit on
\* slot 2
C38_Witness ==
    /\ last.op = "importMidi"
    /\ midiFile = exportMidi(last.pre.blocks, last.pre.bpm)
    /\ Len(last.pre.blocks) = 2
    /\ last.pre.blocks[2].drums[totalSteps] = <<2, 3>>
    /\ Len(blocks) = 2
    /\ blocks[2].drums[totalSteps] = <<2>>

(***************************************************************************)
(* Delta times of the compiled tracks.  toVLQ is called with chosen        *)
(* values, compileTrack with the drum and bass events of the session and   *)
(* with the drum events of a pattern long enough to need deltas of three   *)
(* and four bytes.                                                         *)
(***************************************************************************)
MaxVlq == 268435455                    \* 2^28 - 1, the largest four-byte quantity

VlqValues == {0, 1, 60, 110, 127, 128, 255, 8192, 16383, 16384, 2097151, 2097152, MaxVlq}

\* global steps whose tick times lie on both sides of 2^14 and 2^21, and the
\* last step below 2^28
FarSteps == {136, 137, 17476, 17477, 2236962}

\* the Note-On and Note-Off of the hits of global step g
DrumEventsAt(g, stepDrums) ==
    LET time == g * StepTicks
    IN  Flatten([h \in 1..Len(stepDrums) |->
            <<[t |-> time, type |-> 153, note |-> DrumNote(stepDrums[h]), vel |-> 100],
              [t |-> time + 60, type |-> 137, note |-> DrumNote(stepDrums[h]), vel |-> 0]>>])

\* the deltas of n events of a compiled track from p on, read by the do-while
\* of the importer; each is followed by the type, note and velocity bytes
RECURSIVE TrackDeltaTimes(_, _, _, _)
TrackDeltaTimes(data, p, n, absTime) ==
    IF n = 0 THEN [p |-> p, abs |-> <<>>]
    ELSE LET d == ReadDelta(data, p, Len(data), 0)
             rest == TrackDeltaTimes(data, d.p + 3, n - 1, absTime + d.val)
         IN  [p |-> rest.p, abs |-> <<absTime + d.val>> \o rest.abs]

CallToVLQ ==
    /\ \E v \in VlqValues :
          /\ midiFile' = toVLQ(v)
          /\ last' = Op("toVLQ", v, <<>>, TRUE, NoPre)
    /\ UNCHANGED <<blocks, editingBlock>>
    /\ MidiUnchanged

CompileEvents(events) ==
    /\ midiFile' = compileTrack(events)
    /\ last' = Op("compileTrack", 0, <<>>, TRUE, events)
    /\ UNCHANGED <<blocks, editingBlock>>
    /\ MidiUnchanged

CompileDrumTrack ==
    /\ Len(DrumEvents(blocks)) > 0
    /\ CompileEvents(DrumEvents(blocks))

CompileBassTrack ==
    LET keys == allTrackKeys(blocks)
        chs == MidiChannels(Len(keys), 0)
    IN  \E i \in 1..Len(keys) : CompileEvents(BassEvents(blocks, keys[i], chs[i]))

CompileFarTrack ==
    \E g \in FarSteps : \E hits \in {<<0>>, <<2, 3>>} : \E first \in {<<>>, <<1>>} :
        CompileEvents(DrumEventsAt(0, first) \o DrumEventsAt(g, hits))

NextVlq == CallToVLQ \/ CompileDrumTrack \/ CompileBassTrack \/ CompileFarTrack

\* sessions with one, two and ten bass tracks, with and without drum hits
InitVlq ==
    /\ \E k \in {0, 11} : \E nb \in 1..MaxBlocks : \E sc \in MidiScenarios :
          SessionIs(MidiSession(k, 3, TRUE, nb, sc))
    /\ activeView = BassId(1)
    /\ last = Op("init", 0, <<>>, TRUE, NoPre)
    /\ audioReady = TRUE
    /\ InitRest

SpecVlq == InitVlq /\ [][NextVlq]_vars

\* C39: the delta times of a compiled track, decoded by the importer's
\* do-while and summed, are non-decreasing absolute tick times and are the
\* tick times of the track's events in sorted order (the same times, each as
\* often), with the end-of-track event behind them; toVLQ(v) decodes back to
\* v for v in 0..2^28-1 and has the continuation bit on every byte but the
\* last.
C39_DeltaTimes ==
    /\ last.op = "toVLQ" =>
          LET d == ReadDelta(midiFile, 0, Len(midiFile), 0)
          IN  /\ last.idx \in 0..MaxVlq
              /\ d.val = last.idx
              /\ d.p = Len(midiFile)
              /\ \A i \in 1..Len(midiFile) :
                    /\ midiFile[i] \in 0..255
                    /\ (midiFile[i] >= 128) <=> (i < Len(midiFile))
    /\ last.op = "compileTrack" =>
          LET dec == TrackDeltaTimes(midiFile, 0, Len(last.pre), 0)
              ts == {last.pre[i].t : i \in 1..Len(last.pre)}
          IN  /\ Len(dec.abs) = Len(last.pre)
              /\ \A i \in 1..(Len(dec.abs) - 1) : dec.abs[i] <= dec.abs[i + 1]
              /\ \A i \in 1..Len(dec.abs) : dec.abs[i] \in ts
              /\ \A t \in ts :
                    Cardinality({i \in 1..Len(dec.abs) : dec.abs[i] = t})
                        = Cardinality({i \in 1..Len(last.pre) : last.pre[i].t = t})
              /\ SubSeq(midiFile, dec.p + 1, Len(midiFile)) = MTrackEnd

\* a track whose events were pooled out of order (two hats on one step) and
\* whose first delta takes four bytes
C39_Witness ==
    /\ last.op = "compileTrack"
    /\ \E i, j \in 1..Len(last.pre) : i < j /\ last.pre[i].t > last.pre[j].t
    /\ Len(midiFile) > 4
    /\ \A i \in 1..3 : midiFile[i] >= 128
    /\ midiFile[4] < 128
    /\ TrackDeltaTimes(midiFile, 0, Len(last.pre), 0).abs
          = <<2236962 * 120, 2236962 * 120, (2236962 * 120) + 60, (2236962 * 120) + 60>>

====
